---- MODULE Spec2Model ----
(***************************************************************************)
(* A model of SourceCred's graph engine: the address-keyed Graph of        *)
(* src/core/graph.js (nodes, edges, the two adjacency indices, the         *)
(* modification counter and the lazy iterators guarded by it) and the      *)
(* older payload-carrying Graph.                                           *)
(***************************************************************************)
EXTENDS Integers, Sequences, FiniteSets, TLC

VARIABLES
    subject,            \* which class the run exercises: "graph" or "payload"
    nodes,              \* Graph._nodes: Set<NodeAddressT>, in insertion order
    edges,              \* Graph._edges: Map<EdgeAddressT, Edge>, entries in insertion order
    inEdges,            \* Graph._inEdges: Map<NodeAddressT, Edge[]>
    outEdges,           \* Graph._outEdges: Map<NodeAddressT, Edge[]>
    modificationCount,  \* Graph._modificationCount
    last,               \* the last call made on the graph and how it ended
    iter,               \* the iterator a nodes(), edges() or neighbors() call returned
    payloadGraph,       \* the payload-carrying Graph object: _nodes, _edges, _outEdges, _inEdges
    payloadMods,        \* how many calls have changed the payload-carrying graph
    world               \* several Graph objects and the objects they are made of

vars ==
    <<subject, nodes, edges, inEdges, outEdges, modificationCount, last, iter,
      payloadGraph, payloadMods, world>>

payloadVars == <<payloadGraph, payloadMods>>

graphVars == <<nodes, edges, inEdges, outEdges, modificationCount>>

-----------------------------------------------------------------------------
(* Bounds of the model.                                                    *)

\* How many node addresses the calls draw their arguments from.
NumNodeAddrs == 2

\* How many edge addresses the calls draw their arguments from.
NumEdgeAddrs == 2

\* Mutators are explored while the modification counter is below this.
MaxMods == 4

\* The same, in the runs that also hold an iterator.
IterMaxMods == 2

\* How many payloads the nodes of the payload-carrying graph draw theirs from.
NumPayloads == 2

\* Calls on the payload-carrying graph are explored until this many changed it.
MaxPayloadMods == 2

\* In the runs that merge graphs: how many mutator calls are made in all on
\* the graphs of the run, after the first node of each.
MergeMaxMods == 2

\* In the runs at the end of the modification counter's range: how many
\* modifications the graph can still take when the run starts.
CapMargin == 2

KindMaxMods == 2

JSONMaxMods == 3

\* How many connections a node's list of connections holds at most.
MaxConnections == 2

\* How many mutator calls are made on the two payload-carrying graphs that
\* are merged.
PairMaxMods == 2

\* Number.MAX_SAFE_INTEGER is 2^53 - 1; only comparisons with it matter, and
\* the model's integers are 32 bits wide, so it is the largest of those.
MAX_SAFE_INTEGER == 2147483647

-----------------------------------------------------------------------------
(* Addresses.  An address is a nonce ("N" for nodes, "E" for edges) and a  *)
(* sequence of parts; as a string it is nonce, NUL, then every part        *)
(* followed by NUL.  Parts are modelled as small naturals standing for     *)
(* one-character strings in the same order.                                *)

NodeAddress(parts) == [kind |-> "N", parts |-> parts]

EdgeAddress(parts) == [kind |-> "E", parts |-> parts]

NodePartsList == << <<2>>, <<1>>, <<1, 2>>, <<>>, <<2, 1>>, <<1, 1>> >>

EdgePartsList == << <<2>>, <<1>>, <<1, 1>>, <<>>, <<2, 2>> >>

Min(a, b) == IF a <= b THEN a ELSE b

NodeAddrs ==
    {NodeAddress(NodePartsList[i]) : i \in 1..Min(NumNodeAddrs, Len(NodePartsList))}

EdgeAddrs ==
    {EdgeAddress(EdgePartsList[i]) : i \in 1..Min(NumEdgeAddrs, Len(EdgePartsList))}

\* assertValid of the node address module: the nonce must be the module's own.
NodeAddressValid(a) == a # [undefined |-> TRUE] /\ a.kind = "N"

\* assertValid of the edge address module.
EdgeAddressValid(a) == a # [undefined |-> TRUE] /\ a.kind = "E"

\* hasPrefix: the address string starts with the prefix string, which for
\* NUL-terminated parts is: the parts begin with all of the prefix's parts.
HasPrefix(a, prefix) ==
    /\ a.kind = prefix.kind
    /\ Len(prefix.parts) <= Len(a.parts)
    /\ \A i \in 1..Len(prefix.parts) : a.parts[i] = prefix.parts[i]

\* toParts: the parts of the address string, the nonce dropped.
ToParts(a) == a.parts

\* NodeAddress.fromParts / EdgeAddress.fromParts: the module's nonce is put back.
NodeFromParts(parts) == NodeAddress(parts)

EdgeFromParts(parts) == EdgeAddress(parts)

\* The order of two address strings by UTF-16 code units (what Array.sort and
\* lodash's sortBy compare): NUL sorts below every character of a part, so it
\* is the lexicographic order of the parts, a proper prefix first.
RECURSIVE PartsLess(_, _)
PartsLess(p, q) ==
    IF q = <<>> THEN FALSE
    ELSE IF p = <<>> THEN TRUE
    ELSE IF Head(p) # Head(q) THEN Head(p) < Head(q)
    ELSE PartsLess(Tail(p), Tail(q))

StringLess(a, b) ==
    IF a.kind # b.kind THEN a.kind = "E" ELSE PartsLess(a.parts, b.parts)

-----------------------------------------------------------------------------
(* Helpers on the collections.                                             *)

Undefined == [undefined |-> TRUE]

Range(s) == {s[i] : i \in 1..Len(s)}

\* The sequence without its i-th element (Array.splice(i, 1), Set/Map delete).
RemoveAt(s, i) == SubSeq(s, 1, i - 1) \o SubSeq(s, i + 1, Len(s))

\* Array.findIndex, given for each element whether it passes the test: the
\* first index that passes, or 0 (for -1).
FindIndex(passes) ==
    IF \E i \in 1..Len(passes) : passes[i]
    THEN CHOOSE i \in 1..Len(passes) : passes[i] /\ \A j \in 1..(i - 1) : ~passes[j]
    ELSE 0

\* _nodes.has(a)
NodesHas(ns, a) == a \in Range(ns)

\* _edges.get(a): the value stored under key a, or undefined
EdgesGet(es, a) ==
    IF \E i \in 1..Len(es) : es[i].key = a
    THEN es[CHOOSE i \in 1..Len(es) : es[i].key = a].value
    ELSE Undefined

\* _edges.has(a)
EdgesHas(es, a) == \E i \in 1..Len(es) : es[i].key = a

\* _edges.set(a, e): a present key keeps its place, a new one goes last
EdgesSet(es, a, e) ==
    IF EdgesHas(es, a)
    THEN [i \in 1..Len(es) |-> IF es[i].key = a THEN [key |-> a, value |-> e] ELSE es[i]]
    ELSE Append(es, [key |-> a, value |-> e])

\* _edges.delete(a)
EdgesDelete(es, a) == SelectSeq(es, LAMBDA x : x.key # a)

\* Map.set of an adjacency index
AdjSet(map, a, list) == [x \in (DOMAIN map) \cup {a} |-> IF x = a THEN list ELSE map[x]]

\* Map.delete of an adjacency index
AdjDelete(map, a) == [x \in (DOMAIN map) \ {a} |-> map[x]]

EmptyMap == [x \in {} |-> <<>>]

\* Whether an adjacency index has an entry for the node
AdjHas(map, a) == a \in DOMAIN map

-----------------------------------------------------------------------------
(* The Graph of src/core/graph.js.  A graph object is a record of its      *)
(* fields; every method is an operator from the object (and arguments) to  *)
(* the object afterwards and the error thrown, "none" when it returns.     *)

\* new Graph()
EmptyGraph ==
    [nodes |-> <<>>, edges |-> <<>>, inEdges |-> EmptyMap, outEdges |-> EmptyMap,
     modificationCount |-> 0]

Returned(g) == [graph |-> g, threw |-> "none"]

Threw(g, error) == [graph |-> g, threw |-> error]

\* Graph._checkInvariants, Invariants 3 and 4 for one adjacency index:
\* TRUE iff the sweep over the index throws nothing.
baseNodeAccessor(kind, e) == IF kind = "in-edge" THEN e.dst ELSE e.src

AdjacencyInvariant(g, map, kind) ==
    /\ \A base \in DOMAIN map : NodesHas(g.nodes, base)
    /\ \A base \in DOMAIN map : \A i \in 1..Len(map[base]) :
          /\ \A b2 \in DOMAIN map : \A j \in 1..Len(map[b2]) :
                (<<b2, j>> # <<base, i>>) => map[b2][j].address # map[base][i].address
          /\ EdgesGet(g.edges, map[base][i].address) = map[base][i]
          /\ baseNodeAccessor(kind, map[base][i]) = base

\* The addresses the sweep over an adjacency index has seen
AdjacencySeen(map) ==
    UNION {{map[base][i].address : i \in 1..Len(map[base])} : base \in DOMAIN map}

\* Graph._checkInvariants: TRUE iff it throws nothing.
checkInvariants(g) ==
    /\ \A n \in Range(g.nodes) : AdjHas(g.inEdges, n) /\ AdjHas(g.outEdges, n)
    /\ \A i \in 1..Len(g.edges) :
          /\ g.edges[i].value.address = g.edges[i].key
          /\ NodesHas(g.nodes, g.edges[i].value.src)
          /\ NodesHas(g.nodes, g.edges[i].value.dst)
    /\ AdjacencyInvariant(g, g.inEdges, "in-edge")
    /\ AdjacencyInvariant(g, g.outEdges, "out-edge")
    /\ \A i \in 1..Len(g.edges) :
          /\ g.edges[i].value.address \in AdjacencySeen(g.inEdges)
          /\ g.edges[i].value.address \in AdjacencySeen(g.outEdges)

\* _markModification that starts the counter again from 0
markModificationFromZero(g) ==
    IF g.modificationCount >= MAX_SAFE_INTEGER
    THEN Threw(g, "cannot be modified more")
    ELSE Returned([g EXCEPT !.modificationCount = IF @ >= 1 THEN 0 ELSE @ + 1])

\* _markModification that returns at the maximum and leaves the counter there
markModificationSaturating(g) ==
    Returned([g EXCEPT !.modificationCount = IF @ >= MAX_SAFE_INTEGER THEN @ ELSE @ + 1])

\* Graph._markModification
markModification(g) ==
    IF g.modificationCount >= MAX_SAFE_INTEGER
    THEN Threw(g, "cannot be modified more")
    ELSE Returned([g EXCEPT !.modificationCount = @ + 1])

\* addNode that sets the node's two lists to [] also when the node is present
addNodeResettingLists(g, a) ==
    IF ~NodeAddressValid(a) THEN Threw(g, "invalid address")
    ELSE markModification([g EXCEPT !.nodes = IF NodesHas(@, a) THEN @ ELSE Append(@, a),
                                     !.inEdges = AdjSet(@, a, <<>>),
                                     !.outEdges = AdjSet(@, a, <<>>)])

\* addNode that leaves the counter alone when the node is present
addNodeNotMarkingPresent(g, a) ==
    IF ~NodeAddressValid(a) THEN Threw(g, "invalid address")
    ELSE IF ~NodesHas(g.nodes, a)
    THEN markModification([g EXCEPT !.nodes = Append(@, a),
                                     !.inEdges = AdjSet(@, a, <<>>),
                                     !.outEdges = AdjSet(@, a, <<>>)])
    ELSE Returned(g)

\* Graph.addNode
addNode(g, a) ==
    IF ~NodeAddressValid(a) THEN Threw(g, "invalid address")
    ELSE IF ~NodesHas(g.nodes, a)
    THEN markModification([g EXCEPT !.nodes = Append(@, a),
                                     !.inEdges = AdjSet(@, a, <<>>),
                                     !.outEdges = AdjSet(@, a, <<>>)])
    ELSE markModification(g)

\* existingEdges with the out-edges left out
existingInEdgesOnly(g, a) == IF AdjHas(g.inEdges, a) THEN g.inEdges[a] ELSE <<>>

\* existingEdges with the in-edges left out
existingOutEdgesOnly(g, a) == IF AdjHas(g.outEdges, a) THEN g.outEdges[a] ELSE <<>>

\* The edges that make Graph.removeNode refuse: the node's in-edges then its
\* out-edges, an absent list counting as empty.
existingEdges(g, a) ==
    (IF AdjHas(g.inEdges, a) THEN g.inEdges[a] ELSE <<>>)
        \o (IF AdjHas(g.outEdges, a) THEN g.outEdges[a] ELSE <<>>)

\* removeNode with the deletes of the two adjacency lists left out
removeNodeKeepingLists(g, a) ==
    IF ~NodeAddressValid(a) THEN Threw(g, "invalid address")
    ELSE IF Len(existingEdges(g, a)) > 0 THEN Threw(g, "incident edges")
    ELSE markModification([g EXCEPT !.nodes = SelectSeq(@, LAMBDA n : n # a)])

\* removeNode without the assertion on its address
removeNodeNotAsserting(g, a) ==
    IF Len(existingEdges(g, a)) > 0 THEN Threw(g, "incident edges")
    ELSE markModification([g EXCEPT !.inEdges = AdjDelete(@, a),
                                     !.outEdges = AdjDelete(@, a),
                                     !.nodes = SelectSeq(@, LAMBDA n : n # a)])

\* Graph.removeNode
removeNode(g, a) ==
    IF ~NodeAddressValid(a) THEN Threw(g, "invalid address")
    ELSE IF Len(existingEdges(g, a)) > 0 THEN Threw(g, "incident edges")
    ELSE markModification([g EXCEPT !.inEdges = AdjDelete(@, a),
                                     !.outEdges = AdjDelete(@, a),
                                     !.nodes = SelectSeq(@, LAMBDA n : n # a)])

\* dstMissing that never reports a missing dst
dstNeverMissing(g, e) == FALSE

\* srcMissing and dstMissing of Graph.addEdge
srcMissing(g, e) == ~NodesHas(g.nodes, e.src)

dstMissing(g, e) == ~NodesHas(g.nodes, e.dst)

\* edgeConflicts that finds no conflict: the later edge replaces the stored one
edgeConflictsNever(existingEdge, e) == FALSE

\* edgeConflicts with the comparison of dst left out
edgeConflictsOnSrcOnly(existingEdge, e) ==
    \/ existingEdge.src # e.src
    \/ existingEdge.address # e.address

\* The test of Graph.addEdge for an edge that conflicts with the stored one
edgeConflicts(existingEdge, e) ==
    \/ existingEdge.src # e.src
    \/ existingEdge.dst # e.dst
    \/ existingEdge.address # e.address

\* The else branch of Graph.addEdge, for an address that holds no edge yet:
\* the edge is stored and pushed on the in-list of its dst and the out-list
\* of its src.  NullUtil.get throws on an absent list.
storeNewEdge(g, e) ==
    LET g1 == [g EXCEPT !.edges = EdgesSet(@, e.address, e)]
    IN  IF ~AdjHas(g1.inEdges, e.dst) \/ ~AdjHas(g1.outEdges, e.src)
        THEN Threw(g1, "null")
        ELSE Returned([g1 EXCEPT !.inEdges[e.dst] = Append(@, e),
                                 !.outEdges[e.src] = Append(@, e)])

\* addEdge that pushes the edge on the adjacency lists also when it is stored
addEdgePushingAgain(g, e) ==
    IF ~NodeAddressValid(e.src) THEN Threw(g, "invalid edge.src")
    ELSE IF ~NodeAddressValid(e.dst) THEN Threw(g, "invalid edge.dst")
    ELSE IF ~EdgeAddressValid(e.address) THEN Threw(g, "invalid edge.address")
    ELSE IF srcMissing(g, e) \/ dstMissing(g, e)
    THEN Threw(g, IF srcMissing(g, e) THEN "Missing src" ELSE "Missing dst")
    ELSE IF EdgesHas(g.edges, e.address)
            /\ edgeConflicts(EdgesGet(g.edges, e.address), e)
    THEN Threw(g, "conflict")
    ELSE LET stored == storeNewEdge(g, e)
         IN  IF stored.threw # "none" THEN stored
             ELSE markModification(
                      [stored.graph EXCEPT !.edges = EdgesSet(@, e.address, e)])

\* Graph.addEdge
addEdge(g, e) ==
    IF ~NodeAddressValid(e.src) THEN Threw(g, "invalid edge.src")
    ELSE IF ~NodeAddressValid(e.dst) THEN Threw(g, "invalid edge.dst")
    ELSE IF ~EdgeAddressValid(e.address) THEN Threw(g, "invalid edge.address")
    ELSE IF srcMissing(g, e) \/ dstMissing(g, e)
    THEN Threw(g, IF srcMissing(g, e) THEN "Missing src" ELSE "Missing dst")
    ELSE IF EdgesHas(g.edges, e.address)
    THEN IF edgeConflicts(EdgesGet(g.edges, e.address), e)
         THEN Threw(g, "conflict")
         ELSE markModification([g EXCEPT !.edges = EdgesSet(@, e.address, e)])
    ELSE LET stored == storeNewEdge(g, e)
         IN  IF stored.threw # "none" THEN stored
             ELSE markModification(
                      [stored.graph EXCEPT !.edges = EdgesSet(@, e.address, e)])

\* removeEdge that leaves the edge on the out-list of its src
removeEdgeKeepingOutList(g, address) ==
    IF ~EdgeAddressValid(address) THEN Threw(g, "invalid address")
    ELSE IF ~EdgesHas(g.edges, address) THEN markModification(g)
    ELSE LET edge == EdgesGet(g.edges, address)
             ins == g.inEdges[edge.dst]
             inIndex == FindIndex([i \in 1..Len(ins) |-> ins[i].address = address])
         IN  markModification([g EXCEPT !.edges = EdgesDelete(@, address),
                                        !.inEdges[edge.dst] = RemoveAt(@, inIndex)])

\* Graph.removeEdge
removeEdge(g, address) ==
    IF ~EdgeAddressValid(address) THEN Threw(g, "invalid address")
    ELSE IF ~EdgesHas(g.edges, address) THEN markModification(g)
    ELSE LET edge == EdgesGet(g.edges, address)
             g1 == [g EXCEPT !.edges = EdgesDelete(@, address)]
         IN  IF ~AdjHas(g1.inEdges, edge.dst) \/ ~AdjHas(g1.outEdges, edge.src)
             THEN Threw(g1, "null")
             ELSE LET ins == g1.inEdges[edge.dst]
                      outs == g1.outEdges[edge.src]
                      inIndex == FindIndex([i \in 1..Len(ins) |-> ins[i].address = address])
                      outIndex == FindIndex([i \in 1..Len(outs) |-> outs[i].address = address])
                      g2 == [g1 EXCEPT !.inEdges[edge.dst] = RemoveAt(@, inIndex)]
                  IN  IF inIndex = 0 THEN Threw(g1, "Invariant violation when removing edge")
                      ELSE IF outIndex = 0
                      THEN Threw(g2, "Invariant violation when removing edge")
                      ELSE markModification(
                               [g2 EXCEPT !.outEdges[edge.src] = RemoveAt(@, outIndex)])

\* Graph.hasNode
hasNode(g, a) == NodesHas(g.nodes, a)

\* Graph.hasEdge
hasEdge(g, address) == EdgesHas(g.edges, address)

\* Graph.edge
edge(g, address) == EdgesGet(g.edges, address)

\* A call of hasNode, hasEdge or edge from outside: the address is asserted
\* to be of the right module before the look-up.
hasNodeCall(g, a) ==
    IF ~NodeAddressValid(a) THEN [threw |-> "invalid address"]
    ELSE [threw |-> "none", value |-> hasNode(g, a)]

hasEdgeCall(g, address) ==
    IF ~EdgeAddressValid(address) THEN [threw |-> "invalid address"]
    ELSE [threw |-> "none", value |-> hasEdge(g, address)]

edgeCall(g, address) ==
    IF ~EdgeAddressValid(address) THEN [threw |-> "invalid address"]
    ELSE [threw |-> "none", value |-> edge(g, address)]

-----------------------------------------------------------------------------
(* Iterators.  nodes(), edges() and neighbors() return a generator that    *)
(* holds the modification count of its creation; its body runs from one    *)
(* yield to the next at each advance (next()).                             *)

NoIter == [kind |-> "none"]

NoOutcome == [type |-> "none"]

\* The generator object a call returns: nothing of its body has run yet.
NewIter(kind, since, options) ==
    [kind |-> kind, since |-> since, options |-> options,
     started |-> FALSE,    \* the body has begun (its first advance was made)
     adj |-> 1,            \* neighbors: which of the adjacencies is being walked
     pos |-> 0,            \* how many entries of the collection walked are consumed
     detached |-> FALSE,   \* neighbors: the arrays held are no longer the graph's
     done |-> FALSE,       \* the generator has returned or thrown
     mutated |-> FALSE,    \* a mutator has returned normally since the creation
     out |-> NoOutcome]    \* what the last advance gave

\* Graph._checkForComodification: the error it throws, "none" when it returns
checkForComodification(g, since) ==
    IF g.modificationCount = since THEN "none"
    ELSE IF g.modificationCount > since THEN "Concurrent modification detected"
    ELSE "expected modification count in the future"

\* The check after which a generator that has thrown is not finished
CheckedNotFinishing(g, it, found, pos, adj, value) ==
    LET error == checkForComodification(g, it.since)
    IN  IF error # "none"
        THEN [it EXCEPT !.started = TRUE, !.out = [type |-> "throw", error |-> error]]
        ELSE IF found
        THEN [it EXCEPT !.started = TRUE, !.pos = pos, !.adj = adj,
                        !.out = [type |-> "yield", value |-> value]]
        ELSE [it EXCEPT !.started = TRUE, !.pos = pos, !.adj = adj, !.done = TRUE,
                        !.out = [type |-> "return"]]

\* After the check that precedes a yield or the end of the body: the generator
\* throws and is finished, or yields value / returns.
Checked(g, it, found, pos, adj, value) ==
    LET error == checkForComodification(g, it.since)
    IN  IF error # "none"
        THEN [it EXCEPT !.started = TRUE, !.done = TRUE,
                        !.out = [type |-> "throw", error |-> error]]
        ELSE IF found
        THEN [it EXCEPT !.started = TRUE, !.pos = pos, !.adj = adj,
                        !.out = [type |-> "yield", value |-> value]]
        ELSE [it EXCEPT !.started = TRUE, !.pos = pos, !.adj = adj, !.done = TRUE,
                        !.out = [type |-> "return"]]

\* Where a for-of loop that has consumed pos entries next reaches an
\* element that passes its test (given for each element), or 0 for the end
NextIndex(passes, pos) ==
    IF \E i \in (pos + 1)..Len(passes) : passes[i]
    THEN CHOOSE i \in (pos + 1)..Len(passes) :
             passes[i] /\ \A j \in (pos + 1)..(i - 1) : ~passes[j]
    ELSE 0

\* Graph._nodesIterator, one advance
nodesIteratorNext(g, it) ==
    LET i == NextIndex([k \in 1..Len(g.nodes) |-> HasPrefix(g.nodes[k], it.options.prefix)],
                       it.pos)
    IN  IF i # 0 THEN Checked(g, it, TRUE, i, 1, g.nodes[i])
        ELSE Checked(g, it, FALSE, Len(g.nodes), 1, Undefined)

\* The filter of Graph._edgesIterator without the test of dst
edgeMatchesWithoutDst(e, options) ==
    /\ HasPrefix(e.address, options.addressPrefix)
    /\ HasPrefix(e.src, options.srcPrefix)

\* The filter of Graph._edgesIterator
edgeMatches(e, options) ==
    /\ HasPrefix(e.address, options.addressPrefix)
    /\ HasPrefix(e.src, options.srcPrefix)
    /\ HasPrefix(e.dst, options.dstPrefix)

\* Graph._edgesIterator, one advance
edgesIteratorNext(g, it) ==
    LET i == NextIndex([k \in 1..Len(g.edges) |-> edgeMatches(g.edges[k].value, it.options)],
                       it.pos)
    IN  IF i # 0 THEN Checked(g, it, TRUE, i, 1, g.edges[i].value)
        ELSE Checked(g, it, FALSE, Len(g.edges), 1, Undefined)

\* adjacencies that walks both lists whatever the direction
adjacenciesBoth(direction) == <<"IN", "OUT">>

\* The adjacencies Graph._neighbors walks, in order
adjacencies(direction) ==
    (IF direction \in {"IN", "ANY"} THEN <<"IN">> ELSE <<>>)
        \o (IF direction \in {"OUT", "ANY"} THEN <<"OUT">> ELSE <<>>)

\* The array an adjacency of a started neighbors generator holds: the node's
\* list as it is now, or the empty list it was when the node was removed.
adjacencyEdges(g, it, adjDirection) ==
    IF it.detached \/ ~AdjHas(g.inEdges, it.options.node)
                   \/ ~AdjHas(g.outEdges, it.options.node)
    THEN <<>>
    ELSE IF adjDirection = "IN"
    THEN g.inEdges[it.options.node]
    ELSE g.outEdges[it.options.node]

\* neighborYielded without the skip of loop edges in the IN adjacency
neighborYieldedAlsoLoops(e, adjDirection, options) ==
    /\ HasPrefix(IF adjDirection = "IN" THEN e.src ELSE e.dst, options.nodePrefix)
    /\ HasPrefix(e.address, options.edgePrefix)

\* Whether Graph._neighbors yields the edge met in an adjacency
neighborYielded(e, adjDirection, options) ==
    /\ ~(options.direction = "ANY" /\ adjDirection = "IN" /\ e.src = e.dst)
    /\ HasPrefix(IF adjDirection = "IN" THEN e.src ELSE e.dst, options.nodePrefix)
    /\ HasPrefix(e.address, options.edgePrefix)

\* The loops of Graph._neighbors from adjacency adj, entry pos + 1 on: where
\* the next yield is, or found = FALSE at the end of the last adjacency.
RECURSIVE neighborsScan(_, _, _, _)
neighborsScan(g, it, adj, pos) ==
    LET adjs == adjacencies(it.options.direction)
    IN  IF adj > Len(adjs) THEN [found |-> FALSE, adj |-> adj, pos |-> 0]
        ELSE LET list == adjacencyEdges(g, it, adjs[adj])
                 i == NextIndex([k \in 1..Len(list) |->
                                    neighborYielded(list[k], adjs[adj], it.options)], pos)
             IN  IF i # 0 THEN [found |-> TRUE, adj |-> adj, pos |-> i]
                 ELSE neighborsScan(g, it, adj + 1, 0)

\* Graph._neighbors, one advance.  The first one fetches the node's lists
\* (NullUtil.get throws when the node has none) before any check is made.
neighborsNext(g, it) ==
    IF /\ ~it.started
       /\ \/ (~AdjHas(g.inEdges, it.options.node) /\ it.options.direction \in {"IN", "ANY"})
          \/ (~AdjHas(g.outEdges, it.options.node) /\ it.options.direction \in {"OUT", "ANY"})
    THEN [it EXCEPT !.started = TRUE, !.done = TRUE,
                    !.out = [type |-> "throw", error |-> "null"]]
    ELSE LET at == neighborsScan(g, it, it.adj, it.pos)
             adjDirection == adjacencies(it.options.direction)[at.adj]
             e == adjacencyEdges(g, it, adjDirection)[at.pos]
         IN  IF at.found
             THEN Checked(g, it, TRUE, at.pos, at.adj,
                          [edge |-> e, node |-> IF adjDirection = "IN" THEN e.src ELSE e.dst])
             ELSE Checked(g, it, FALSE, at.pos, at.adj, Undefined)

\* One advance of a generator: a finished one gives {done: true} again.
iteratorNext(g, it) ==
    IF it.done THEN [it EXCEPT !.out = [type |-> "return"]]
    ELSE IF it.kind = "nodes" THEN nodesIteratorNext(g, it)
    ELSE IF it.kind = "edges" THEN edgesIteratorNext(g, it)
    ELSE neighborsNext(g, it)

\* How many of the first pos elements of s are absent from the set kept
Dropped(s, pos, kept) == Cardinality({j \in 1..Min(pos, Len(s)) : s[j] \notin kept})

\* What a mutator call does to an open generator: a Set or Map iterator keeps
\* its place when an entry before it is deleted, and a started neighbors
\* generator is left with the arrays of a node that is removed.
iteratorAfterCall(it, g, r) ==
    IF it.kind = "none" \/ it.done THEN it
    ELSE LET it1 == [it EXCEPT !.mutated = @ \/ r.threw = "none"]
         IN  IF it.kind = "nodes"
             THEN [it1 EXCEPT !.pos = @ - Dropped(g.nodes, @, Range(r.graph.nodes))]
             ELSE IF it.kind = "edges"
             THEN [it1 EXCEPT !.pos = @ - Dropped([i \in 1..Len(g.edges) |-> g.edges[i].key],
                                                 @, {x.key : x \in Range(r.graph.edges)})]
             ELSE [it1 EXCEPT !.detached =
                                 \/ @
                                 \/ /\ it.started
                                    /\ NodesHas(g.nodes, it.options.node)
                                    /\ ~NodesHas(r.graph.nodes, it.options.node)]

\* Graph.nodes
nodesCall(g, options) == NewIter("nodes", g.modificationCount, options)

\* Graph.edges
edgesCall(g, options) == NewIter("edges", g.modificationCount, options)

\* Graph.neighbors: the generator, or no generator when the node is absent
neighborsCall(g, options) ==
    IF ~hasNode(g, options.node) THEN NoIter
    ELSE NewIter("neighbors", g.modificationCount, options)

-----------------------------------------------------------------------------
(* Serialization and equality of the Graph of src/core/graph.js.           *)

\* Array.from(iterator): the elements the generator yields until it returns,
\* or the error it throws.
RECURSIVE drain(_, _, _)
drain(g, it, acc) ==
    CHOOSE result \in
        {IF it2.out.type = "yield" THEN drain(g, it2, Append(acc, it2.out.value))
         ELSE IF it2.out.type = "throw" THEN [threw |-> it2.out.error, values |-> acc]
         ELSE [threw |-> "none", values |-> acc] :
            it2 \in {iteratorNext(g, it)}} : TRUE

arrayFrom(g, it) == drain(g, it, <<>>)

\* The sorted sequence of {key, value} pairs with x put before the first
\* pair whose key string is greater: one step of a stable ascending sort.
RECURSIVE InsertSorted(_, _)
InsertSorted(sorted, x) ==
    IF sorted = <<>> THEN <<x>>
    ELSE IF StringLess(x.key, Head(sorted).key) THEN <<x>> \o sorted
    ELSE <<Head(sorted)>> \o InsertSorted(Tail(sorted), x)

RECURSIVE SortPairs(_)
SortPairs(pairs) ==
    IF pairs = <<>> THEN <<>>
    ELSE InsertSorted(SortPairs(SubSeq(pairs, 1, Len(pairs) - 1)), pairs[Len(pairs)])

\* sortBy leaving the array in the order it was given
sortByNothing(array, keys) == array

\* Array.sort() on address strings and lodash's sortBy, given the key of each
\* element: the array in ascending order of the key strings, equal keys in
\* their first order.
sortBy(array, keys) ==
    LET sorted == SortPairs([i \in 1..Len(array) |-> [key |-> keys[i], value |-> array[i]]])
    IN  [i \in 1..Len(sorted) |-> sorted[i].value]

\* The position (from 0) of an element in an array, or -1
IndexOf(array, x) == FindIndex([i \in 1..Len(array) |-> array[i] = x]) - 1

COMPAT_INFO == [type |-> "sourcecred/graph", version |-> "0.4.0"]

\* toCompat: the data under the envelope
toCompat(info, data) == [compat |-> info, data |-> data]

\* Graph.toJSON: the JSON, or the error thrown on the way (by an iterator, or
\* by NullUtil.get for an endpoint that is not among the nodes)
toJSON(g) ==
    LET allNodes == arrayFrom(g, nodesCall(g, [prefix |-> NodeAddress(<<>>)]))
        allEdges == arrayFrom(g, edgesCall(g, [addressPrefix |-> EdgeAddress(<<>>),
                                               srcPrefix |-> NodeAddress(<<>>),
                                               dstPrefix |-> NodeAddress(<<>>)]))
        sortedNodes == sortBy(allNodes.values, allNodes.values)
        sortedEdges == sortBy(allEdges.values,
                              [i \in 1..Len(allEdges.values) |-> allEdges.values[i].address])
        indexedEdges ==
            [i \in 1..Len(sortedEdges) |->
                [srcIndex |-> IndexOf(sortedNodes, sortedEdges[i].src),
                 dstIndex |-> IndexOf(sortedNodes, sortedEdges[i].dst),
                 address |-> ToParts(sortedEdges[i].address)]]
        rawJSON ==
            [nodes |-> [i \in 1..Len(sortedNodes) |-> ToParts(sortedNodes[i])],
             edges |-> indexedEdges]
    IN  IF allNodes.threw # "none" THEN [threw |-> allNodes.threw, json |-> Undefined]
        ELSE IF allEdges.threw # "none" THEN [threw |-> allEdges.threw, json |-> Undefined]
        ELSE IF \E i \in 1..Len(indexedEdges) :
                    indexedEdges[i].srcIndex = -1 \/ indexedEdges[i].dstIndex = -1
        THEN [threw |-> "null", json |-> Undefined]
        ELSE [threw |-> "none", json |-> toCompat(COMPAT_INFO, rawJSON)]

\* At reading the array from 1
AtFromOne(array, index) ==
    IF index >= 1 /\ index <= Len(array) THEN array[index] ELSE Undefined

\* array[index] that gives the last element for an index outside the array
AtOrLast(array, index) ==
    IF index >= 0 /\ index < Len(array) THEN array[index + 1]
    ELSE IF array = <<>> THEN Undefined ELSE array[Len(array)]

\* array[index] for an index from 0: undefined outside the array
At(array, index) ==
    IF index >= 0 /\ index < Len(array) THEN array[index + 1] ELSE Undefined

\* The forEach loops of Graph.fromJSON: the calls are made in order on the
\* result until one throws.
RECURSIVE addNodes(_, _)
addNodes(r, list) ==
    IF r.threw # "none" \/ list = <<>> THEN r
    ELSE addNodes(addNode(r.graph, Head(list)), Tail(list))

RECURSIVE addEdges(_, _)
addEdges(r, list) ==
    IF r.threw # "none" \/ list = <<>> THEN r
    ELSE addEdges(addEdge(r.graph, Head(list)), Tail(list))

\* fromCompat, called without handlers for other versions: the data, unless
\* the envelope's type or version is not the expected one.
fromCompat(info, json) ==
    IF json.compat.type # info.type
    THEN [threw |-> "incompatible type", data |-> Undefined]
    ELSE IF json.compat.version # info.version
    THEN [threw |-> "incompatible version", data |-> Undefined]
    ELSE [threw |-> "none", data |-> json.data]

\* The body of Graph.fromJSON after fromCompat: the graph built from the data
buildFromJSON(data) ==
    LET nodeList == [i \in 1..Len(data.nodes) |-> NodeFromParts(data.nodes[i])]
        edgeList ==
            [i \in 1..Len(data.edges) |->
                [address |-> EdgeFromParts(data.edges[i].address),
                 src |-> At(nodeList, data.edges[i].srcIndex),
                 dst |-> At(nodeList, data.edges[i].dstIndex)]]
    IN  addEdges(addNodes(Returned(EmptyGraph), nodeList), edgeList)

\* fromJSON that builds the graph whatever the envelope is
fromJSONNotChecking(json) == buildFromJSON(json.data)

\* Graph.fromJSON.  No graph is returned when fromCompat throws.
fromJSON(json) ==
    LET compat == fromCompat(COMPAT_INFO, json)
    IN  IF compat.threw # "none" THEN Threw(Undefined, compat.threw)
        ELSE buildFromJSON(compat.data)

\* Graph.equals: deep equality of the node Sets and of the edge Maps, which
\* lodash compares without regard to the order of their entries
equals(g, that) ==
    /\ Range(g.nodes) = Range(that.nodes)
    /\ Range(g.edges) = Range(that.edges)

-----------------------------------------------------------------------------
(* Several Graph objects.  A Graph object holds references to its Set, its *)
(* Maps and, through the adjacency Maps, to the arrays of edges; the heap  *)
(* gives the contents of each of these objects, so that two graphs share   *)
(* state exactly when they hold the same reference.                        *)

\* A reference: the number of the Graph object that created the object, the
\* field it was created for and, for an array of edges, the node it was
\* created for
Ref(number, field, node) == <<number, field, node>>

\* new Graph(): an object with a Set and three Maps of its own and the
\* counter at 0
newGraph(heap) ==
    LET numbers == {id[1] : id \in DOMAIN heap}
        k == CHOOSE i \in 0..Cardinality(numbers) :
                 i \notin numbers /\ \A j \in 0..(i - 1) : j \in numbers
        this == Ref(k, "this", Undefined)
        fields == [nodes |-> Ref(k, "nodes", Undefined),
                   edges |-> Ref(k, "edges", Undefined),
                   inEdges |-> Ref(k, "inEdges", Undefined),
                   outEdges |-> Ref(k, "outEdges", Undefined),
                   modificationCount |-> 0]
    IN  [heap |-> (this :> fields) @@ (fields.nodes :> <<>>) @@ (fields.edges :> <<>>)
                      @@ (fields.inEdges :> EmptyMap) @@ (fields.outEdges :> EmptyMap)
                      @@ heap,
         obj |-> this,
         threw |-> "none"]

\* The fields of a Graph object, read through its references
Load(heap, obj) ==
    LET this == heap[obj]
    IN  [nodes |-> heap[this.nodes],
         edges |-> heap[this.edges],
         inEdges |-> [n \in DOMAIN heap[this.inEdges] |-> heap[heap[this.inEdges][n]]],
         outEdges |-> [n \in DOMAIN heap[this.outEdges] |-> heap[heap[this.outEdges][n]]],
         modificationCount |-> this.modificationCount]

\* The heap after a method has made the object's fields those of g: the
\* counter is assigned, the Set, the Maps and the arrays of edges are changed
\* in place (add, set, delete, push, splice), and the only new arrays are
\* the two [] of addNode.
Store(heap, obj, g) ==
    LET this == heap[obj]
        inMap == [n \in DOMAIN g.inEdges |->
                     IF n \in DOMAIN heap[this.inEdges] THEN heap[this.inEdges][n]
                     ELSE Ref(obj[1], "in", n)]
        outMap == [n \in DOMAIN g.outEdges |->
                      IF n \in DOMAIN heap[this.outEdges] THEN heap[this.outEdges][n]
                      ELSE Ref(obj[1], "out", n)]
        inArrays == {inMap[n] : n \in DOMAIN inMap}
        outArrays == {outMap[n] : n \in DOMAIN outMap}
        arrays == [id \in inArrays \cup outArrays |->
                      IF id \in outArrays
                      THEN g.outEdges[CHOOSE n \in DOMAIN outMap : outMap[n] = id]
                      ELSE g.inEdges[CHOOSE n \in DOMAIN inMap : inMap[n] = id]]
    IN  (obj :> [this EXCEPT !.modificationCount = g.modificationCount])
            @@ (this.nodes :> g.nodes) @@ (this.edges :> g.edges)
            @@ (this.inEdges :> inMap) @@ (this.outEdges :> outMap) @@ arrays @@ heap

\* The objects a Graph object reaches, itself included
Reach(heap, obj) ==
    LET this == heap[obj]
    IN  {obj, this.nodes, this.edges, this.inEdges, this.outEdges}
            \cup {heap[this.inEdges][n] : n \in DOMAIN heap[this.inEdges]}
            \cup {heap[this.outEdges][n] : n \in DOMAIN heap[this.outEdges]}

\* A method called on a Graph object of the heap: r is what the method makes
\* of the object's fields and how it ends
heapCall(st, r) ==
    [heap |-> Store(st.heap, st.obj, r.graph), obj |-> st.obj, threw |-> r.threw]

\* Every node and every edge: the options of graph.nodes() and graph.edges()
AllNodes == [prefix |-> NodeAddress(<<>>)]

AllEdges ==
    [addressPrefix |-> EdgeAddress(<<>>), srcPrefix |-> NodeAddress(<<>>),
     dstPrefix |-> NodeAddress(<<>>)]

\* Graph.merge, the loop over the input graphs: result.addNode(node) for the
\* nodes and result.addEdge(edge) for the edges of each input, until a call
\* throws.  r is the result so far and how the last call on it ended.
RECURSIVE mergeGraphs(_, _)
mergeGraphs(r, graphs) ==
    IF r.threw # "none" \/ graphs = <<>> THEN r
    ELSE mergeGraphs(
             addEdges(addNodes(r, arrayFrom(Head(graphs), nodesCall(Head(graphs), AllNodes)).values),
                      arrayFrom(Head(graphs), edgesCall(Head(graphs), AllEdges)).values),
             Tail(graphs))

\* merge that stops after its first input
mergeFirstOnly(heap, objs) ==
    heapCall(newGraph(heap),
             mergeGraphs(Returned(EmptyGraph),
                         IF objs = <<>> THEN <<>> ELSE <<Load(heap, Head(objs))>>))

\* merge that fills its first input instead of a new Graph object
mergeIntoFirst(heap, objs) ==
    IF objs = <<>> THEN heapCall(newGraph(heap), Returned(EmptyGraph))
    ELSE heapCall([heap |-> heap, obj |-> Head(objs), threw |-> "none"],
                  mergeGraphs(Returned(Load(heap, Head(objs))),
                              [k \in 1..Len(objs) |-> Load(heap, objs[k])]))

\* Graph.merge: the result is a new Graph object, filled by the calls of the
\* loop; the result object, the heap with it, and how the call ends
merge(heap, objs) ==
    heapCall(newGraph(heap),
             mergeGraphs(Returned(EmptyGraph), [k \in 1..Len(objs) |-> Load(heap, objs[k])]))

\* copy that returns the graph itself
copyReturningThis(heap, obj) == [heap |-> heap, obj |-> obj, threw |-> "none"]

\* Graph.copy
copy(heap, obj) == merge(heap, <<obj>>)

-----------------------------------------------------------------------------
(* The payload-carrying Graph: nodes and edges are objects with an address *)
(* {type, id} and a payload, kept in AddressMaps.  An AddressMap is        *)
(* modelled as a function from the addresses it holds to the objects.      *)

PayloadAddress(type, id) == [type |-> type, id |-> id]

PayloadNodeAddrs ==
    {PayloadAddress(IF i % 2 = 1 THEN "USER" ELSE "REPO", i) : i \in 1..NumNodeAddrs}

PayloadEdgeAddrs ==
    {PayloadAddress(IF i % 2 = 1 THEN "AUTHORS" ELSE "REFERENCES", i) : i \in 1..NumEdgeAddrs}

\* AddressMap.add: the object is stored under its address, replacing any other
MapAdd(map, address, t) ==
    [x \in (DOMAIN map) \cup {address} |-> IF x = address THEN t ELSE map[x]]

\* AddressMap.remove
MapRemove(map, address) == [x \in (DOMAIN map) \ {address} |-> map[x]]

\* AddressMap.get(address) !== undefined
MapHas(map, address) == address \in DOMAIN map

\* new Graph() of the payload-carrying class
EmptyPayloadGraph ==
    [nodes |-> EmptyMap, edges |-> EmptyMap, outEdges |-> EmptyMap, inEdges |-> EmptyMap]

\* Graph._lookupEdges
lookupEdges(map, key) == IF MapHas(map, key) THEN map[key] ELSE <<>>

\* Graph.addNode of the payload-carrying class
payloadAddNode(g, node) ==
    IF MapHas(g.nodes, node.address)
    THEN IF g.nodes[node.address] = node THEN Returned(g)
         ELSE Threw(g, "exists with distinct contents")
    ELSE Returned([g EXCEPT
             !.nodes = MapAdd(@, node.address, node),
             !.outEdges = MapAdd(@, node.address, lookupEdges(g.outEdges, node.address)),
             !.inEdges = MapAdd(@, node.address, lookupEdges(g.inEdges, node.address))])

\* Graph.removeNode of the payload-carrying class
payloadRemoveNode(g, address) == Returned([g EXCEPT !.nodes = MapRemove(@, address)])

\* Graph.addEdge of the payload-carrying class
payloadAddEdge(g, e) ==
    IF MapHas(g.edges, e.address)
    THEN IF g.edges[e.address] = e THEN Returned(g)
         ELSE Threw(g, "exists with distinct contents")
    ELSE Returned([g EXCEPT
             !.edges = MapAdd(@, e.address, e),
             !.outEdges = MapAdd(@, e.src, Append(lookupEdges(g.outEdges, e.src), e.address)),
             !.inEdges = MapAdd(@, e.dst, Append(lookupEdges(g.inEdges, e.dst), e.address))])

\* The splice of Graph.removeEdge on the list stored for the key: the first
\* entry equal to the address goes; a list that is not stored is a fresh [].
spliceStored(map, key, address) ==
    LET list == lookupEdges(map, key)
        index == FindIndex([i \in 1..Len(list) |-> list[i] = address])
    IN  IF MapHas(map, key) /\ index # 0
        THEN [map EXCEPT ![key] = RemoveAt(@, index)]
        ELSE map

\* Graph.removeEdge of the payload-carrying class
payloadRemoveEdge(g, address) ==
    IF MapHas(g.edges, address)
    THEN Returned([g EXCEPT
             !.inEdges = spliceStored(@, g.edges[address].dst, address),
             !.outEdges = spliceStored(@, g.edges[address].src, address),
             !.edges = MapRemove(@, address)])
    ELSE Returned([g EXCEPT !.edges = MapRemove(@, address)])

\* The {edge, neighbor} pairs Graph.neighborhood makes of a list of edge addresses
neighborPairs(g, list, end) ==
    [i \in 1..Len(list) |->
        [edge |-> g.edges[list[i]],
         neighbor |-> IF end = "src" THEN g.edges[list[i]].src ELSE g.edges[list[i]].dst]]

\* An option that the caller leaves out
NotGiven == "(not given)"

\* Graph.neighborhood: the array it returns, or the TypeError of reading src
\* or dst of an edge the graph does not hold.  The direction defaults to "ANY".
neighborhood(g, nodeAddress, options) ==
    LET direction == IF options.direction = NotGiven THEN "ANY" ELSE options.direction
        inList == lookupEdges(g.inEdges, nodeAddress)
        outList == lookupEdges(g.outEdges, nodeAddress)
        inNeighbors ==
            IF direction \in {"ANY", "IN"} THEN neighborPairs(g, inList, "src") ELSE <<>>
        outNeighbors ==
            IF direction \in {"ANY", "OUT"} THEN neighborPairs(g, outList, "dst") ELSE <<>>
        outKept ==
            IF direction = "ANY"
            THEN SelectSeq(outNeighbors, LAMBDA x : x.edge.src # x.edge.dst)
            ELSE outNeighbors
        byEdgeType ==
            IF options.edgeType # NotGiven
            THEN SelectSeq(inNeighbors \o outKept,
                           LAMBDA x : x.edge.address.type = options.edgeType)
            ELSE inNeighbors \o outKept
        byNodeType ==
            IF options.nodeType # NotGiven
            THEN SelectSeq(byEdgeType, LAMBDA x : x.neighbor.type = options.nodeType)
            ELSE byEdgeType
    IN  IF \/ (direction \in {"ANY", "IN"} /\ \E a \in Range(inList) : ~MapHas(g.edges, a))
           \/ (direction \in {"ANY", "OUT"} /\ \E a \in Range(outList) : ~MapHas(g.edges, a))
        THEN [threw |-> "TypeError", result |-> <<>>]
        ELSE [threw |-> "none", result |-> byNodeType]

\* AddressMap.getAll: the objects held, in the "unspecified order" of the
\* map's keys; the model takes one order.
RECURSIVE getAll(_)
getAll(map) ==
    IF DOMAIN map = {} THEN <<>>
    ELSE LET address == CHOOSE x \in DOMAIN map : TRUE
         IN  <<map[address]>> \o getAll(MapRemove(map, address))

\* The resolvers Graph.merge is called with.  The conservative one is
\* conservativeResolver of mergeConservative; the others are a caller's:
\* return the first object, the second, or a new object at the same
\* address whose payload is the sum of the two.
resolve(resolver, kinds, a, b) ==
    IF resolver = "conservative"
    THEN IF a = b THEN [threw |-> "none", value |-> a]
         ELSE [threw |-> "distinct " \o kinds, value |-> Undefined]
    ELSE IF resolver = "first" THEN [threw |-> "none", value |-> a]
    ELSE IF resolver = "second" THEN [threw |-> "none", value |-> b]
    ELSE [threw |-> "none", value |-> [a EXCEPT !.payload = a.payload + b.payload]]

\* result.addNode or result.addEdge
payloadAdd(kinds, g, t) ==
    IF kinds = "nodes" THEN payloadAddNode(g, t) ELSE payloadAddEdge(g, t)

\* g.node(address) !== undefined or g.edge(address) !== undefined
payloadHas(kinds, g, address) ==
    IF kinds = "nodes" THEN MapHas(g.nodes, address) ELSE MapHas(g.edges, address)

\* The loops of Graph.merge over g1.nodes() and g1.edges(): an object whose
\* address g2 holds too is resolved; the loop ends at the first throw.
RECURSIVE mergeFirst(_, _, _, _, _)
mergeFirst(r, kinds, list, g2, resolver) ==
    IF r.threw # "none" \/ list = <<>> THEN r
    ELSE LET t == Head(list)
             resolved == resolve(resolver, kinds, t,
                                 IF kinds = "nodes" THEN g2.nodes[t.address]
                                 ELSE g2.edges[t.address])
             next == IF ~payloadHas(kinds, g2, t.address) THEN payloadAdd(kinds, r.graph, t)
                     ELSE IF resolved.threw # "none" THEN Threw(r.graph, resolved.threw)
                     ELSE payloadAdd(kinds, r.graph, resolved.value)
         IN  CHOOSE result \in {mergeFirst(n, kinds, Tail(list), g2, resolver) : n \in {next}} :
                 TRUE

\* The loops of Graph.merge over g2.nodes() and g2.edges(): an object whose
\* address the result does not hold yet is added.
RECURSIVE mergeSecond(_, _, _)
mergeSecond(r, kinds, list) ==
    IF r.threw # "none" \/ list = <<>> THEN r
    ELSE LET t == Head(list)
             next == IF payloadHas(kinds, r.graph, t.address) THEN r
                     ELSE payloadAdd(kinds, r.graph, t)
         IN  CHOOSE result \in {mergeSecond(n, kinds, Tail(list)) : n \in {next}} : TRUE

\* Graph.merge of the payload-carrying class, taking only g2's objects
payloadMergeSecondOnly(g1, g2, nodeResolver, edgeResolver) ==
    mergeSecond(mergeSecond(Returned(EmptyPayloadGraph), "nodes", getAll(g2.nodes)),
                "edges", getAll(g2.edges))

\* Graph.merge of the payload-carrying class
payloadMerge(g1, g2, nodeResolver, edgeResolver) ==
    mergeSecond(
        mergeFirst(
            mergeSecond(
                mergeFirst(Returned(EmptyPayloadGraph), "nodes", getAll(g1.nodes), g2,
                           nodeResolver),
                "nodes", getAll(g2.nodes)),
            "edges", getAll(g1.edges), g2, edgeResolver),
        "edges", getAll(g2.edges))

\* mergeConservative that keeps g1's object where the two differ
payloadMergeKeepingFirst(g1, g2) == payloadMerge(g1, g2, "first", "first")

\* Graph.mergeConservative
payloadMergeConservative(g1, g2) == payloadMerge(g1, g2, "conservative", "conservative")

\* The loops of Graph.mergeManyConservative over one graph's nodes() and
\* edges()
RECURSIVE payloadAddAll(_, _, _)
payloadAddAll(r, kinds, list) ==
    IF r.threw # "none" \/ list = <<>> THEN r
    ELSE CHOOSE result \in
             {payloadAddAll(n, kinds, Tail(list)) :
                 n \in {payloadAdd(kinds, r.graph, Head(list))}} : TRUE

\* The accumulator of Graph.mergeManyConservative after the graphs given
RECURSIVE mergeManyInto(_, _)
mergeManyInto(r, graphs) ==
    IF r.threw # "none" \/ graphs = <<>> THEN r
    ELSE CHOOSE result \in
             {mergeManyInto(n, Tail(graphs)) :
                 n \in {payloadAddAll(payloadAddAll(r, "nodes", getAll(Head(graphs).nodes)),
                                      "edges", getAll(Head(graphs).edges))}} : TRUE

\* mergeManyConservative that adds the nodes of the graphs only
payloadMergeManyNodesOnly(graphs) ==
    mergeManyInto(Returned(EmptyPayloadGraph),
                  [i \in 1..Len(graphs) |-> [graphs[i] EXCEPT !.edges = EmptyMap]])

\* Graph.mergeManyConservative
payloadMergeManyConservative(graphs) == mergeManyInto(Returned(EmptyPayloadGraph), graphs)

\* graphs.reduce((g, h) => Graph.mergeConservative(g, h), new Graph())
RECURSIVE reduceMergeConservative(_, _)
reduceMergeConservative(r, graphs) ==
    IF r.threw # "none" \/ graphs = <<>> THEN r
    ELSE CHOOSE result \in
             {reduceMergeConservative(n, Tail(graphs)) :
                 n \in {payloadMergeConservative(r.graph, Head(graphs))}} : TRUE

-----------------------------------------------------------------------------
(* The state machine: one Graph object, the calls made on it and one       *)
(* iterator over it.                                                       *)

\* The Graph object of the run
G ==
    [nodes |-> nodes, edges |-> edges, inEdges |-> inEdges, outEdges |-> outEdges,
     modificationCount |-> modificationCount]

SetGraph(g) ==
    /\ nodes' = g.nodes
    /\ edges' = g.edges
    /\ inEdges' = g.inEdges
    /\ outEdges' = g.outEdges
    /\ modificationCount' = g.modificationCount

\* The edges the calls draw their arguments from
EdgeInputs ==
    {[address |-> a, src |-> s, dst |-> d] : a \in EdgeAddrs, s \in NodeAddrs, d \in NodeAddrs}

\* The prefixes the queries draw their filters from
NodePrefixes == {NodeAddress(<<>>), NodeAddress(<<1>>)}

EdgePrefixes == {EdgeAddress(<<>>), EdgeAddress(<<1>>)}

NodesOptions == {[prefix |-> p] : p \in NodePrefixes}

EdgesOptions ==
    {[addressPrefix |-> EdgeAddress(<<>>), srcPrefix |-> NodeAddress(<<>>),
      dstPrefix |-> NodeAddress(<<>>)],
     [addressPrefix |-> EdgeAddress(<<1>>), srcPrefix |-> NodeAddress(<<>>),
      dstPrefix |-> NodeAddress(<<1>>)],
     [addressPrefix |-> EdgeAddress(<<>>), srcPrefix |-> NodeAddress(<<1>>),
      dstPrefix |-> NodeAddress(<<>>)]}

NeighborsOptions ==
    {[node |-> n, direction |-> d, nodePrefix |-> np, edgePrefix |-> ep] :
        n \in NodeAddrs, d \in {"IN", "OUT", "ANY"}, np \in NodePrefixes,
        ep \in EdgePrefixes}

\* A call of a mutator: its effect on the graph, its outcome, and what it
\* does to the open iterator.
Call(op, arg, r) ==
    /\ SetGraph(r.graph)
    /\ last' = [op |-> op, arg |-> arg, threw |-> r.threw]
    /\ iter' = iteratorAfterCall(iter, G, r)
    /\ UNCHANGED <<subject, payloadVars, world>>

\* A call of a mutator of the payload-carrying graph
PayloadCall(op, arg, r) ==
    /\ payloadGraph' = r.graph
    /\ payloadMods' = IF r.graph # payloadGraph THEN payloadMods + 1 ELSE payloadMods
    /\ last' = [op |-> op, arg |-> arg, threw |-> r.threw]
    /\ UNCHANGED <<subject, graphVars, iter, world>>

\* The nodes and edges the calls on the payload-carrying graph draw from
PayloadNodeInputs ==
    {[address |-> a, payload |-> p] : a \in PayloadNodeAddrs, p \in 1..NumPayloads}

PayloadEdgeInputs ==
    {[address |-> a, src |-> s, dst |-> d, payload |-> 1] :
        a \in PayloadEdgeAddrs, s \in PayloadNodeAddrs, d \in PayloadNodeAddrs}

\* The options a neighborhood query is made with
NeighborhoodOptions ==
    {[direction |-> d, nodeType |-> nt, edgeType |-> et] :
        d \in {NotGiven, "IN", "OUT", "ANY"},
        nt \in {NotGiven} \cup {a.type : a \in PayloadNodeAddrs},
        et \in {NotGiven} \cup {a.type : a \in PayloadEdgeAddrs}}

\* No Graph objects: the runs on a single graph
EmptyHeap == [id \in {} |-> <<>>]

NoWorld == [heap |-> EmptyHeap, graphs |-> <<>>, mods |-> 0, call |-> [op |-> "none"]]

\* The addresses and edges the calls of the runs that merge graphs draw
\* their arguments from
FirstNode == NodeAddress(<<2>>)

SecondNode == NodeAddress(<<1>>)

MergeNodeAddrs == {FirstNode, SecondNode}

MergeEdgeAddrs == {EdgeAddress(<<2>>), EdgeAddress(<<1>>)}

MergeEdgeInputs ==
    {[address |-> EdgeAddress(<<2>>), src |-> FirstNode, dst |-> FirstNode],
     [address |-> EdgeAddress(<<2>>), src |-> SecondNode, dst |-> SecondNode],
     [address |-> EdgeAddress(<<1>>), src |-> SecondNode, dst |-> SecondNode],
     [address |-> EdgeAddress(<<1>>), src |-> FirstNode, dst |-> SecondNode]}

\* Two Graph objects, constructed and given a node each:
\* g1 = new Graph().addNode(FirstNode), g2 = new Graph().addNode(SecondNode)
TwoGraphs ==
    LET first == newGraph(EmptyHeap)
        firstThen == heapCall(first, addNode(Load(first.heap, first.obj), FirstNode))
        second == newGraph(firstThen.heap)
        secondThen == heapCall(second, addNode(Load(second.heap, second.obj), SecondNode))
    IN  [heap |-> secondThen.heap, graphs |-> <<first.obj, second.obj>>, mods |-> 0,
         call |-> [op |-> "new"]]

\* The heap without the objects that no graph of the run reaches
Collect(heap, graphs) ==
    LET live == UNION {Reach(heap, graphs[i]) : i \in 1..Len(graphs)}
    IN  [id \in live |-> heap[id]]

\* The graph of the run at a position
GraphAt(i) == Load(world.heap, world.graphs[i])

\* A call of a mutator on one of the graphs of the run
WorldCall(i, op, arg, r) ==
    LET st == heapCall([heap |-> world.heap, obj |-> world.graphs[i], threw |-> "none"], r)
    IN  /\ world' = [heap |-> Collect(st.heap, world.graphs),
                     graphs |-> world.graphs,
                     mods |-> world.mods + 1,
                     call |-> [op |-> op, threw |-> r.threw]]
        /\ UNCHANGED <<subject, graphVars, last, iter, payloadVars>>

\* A call of Graph.merge or of copy: the run keeps the two graphs it began
\* with and the graph the call returned, in place of the one a call returned
\* before; a call that throws returns none.
WorldResult(op, inputs, st) ==
    LET graphs == IF st.threw = "none"
                  THEN SubSeq(world.graphs, 1, 2) \o <<st.obj>>
                  ELSE world.graphs
    IN  /\ world' = [heap |-> Collect(st.heap, graphs),
                     graphs |-> graphs,
                     mods |-> world.mods,
                     call |-> [op |-> op, inputs |-> inputs, threw |-> st.threw]]
        /\ UNCHANGED <<subject, graphVars, last, iter, payloadVars>>

\* The lists of graphs that merge is called with
MergeInputs == {<<>>} \cup {<<i>> : i \in 1..2} \cup {<<i, j>> : i, j \in 1..2}

Init ==
    /\ subject \in {"graph", "payload"}
    /\ nodes = EmptyGraph.nodes
    /\ edges = EmptyGraph.edges
    /\ inEdges = EmptyGraph.inEdges
    /\ outEdges = EmptyGraph.outEdges
    /\ modificationCount = EmptyGraph.modificationCount
    /\ last = [op |-> "new", arg |-> Undefined, threw |-> "none"]
    /\ iter = NoIter
    /\ payloadGraph = EmptyPayloadGraph
    /\ payloadMods = 0
    /\ world = NoWorld

AddNodeCall(bound) ==
    /\ subject = "graph"
    /\ modificationCount < bound
    /\ \E a \in NodeAddrs : Call("addNode", a, addNode(G, a))

RemoveNodeCall(bound) ==
    /\ subject = "graph"
    /\ modificationCount < bound
    /\ \E a \in NodeAddrs : Call("removeNode", a, removeNode(G, a))

AddEdgeCall(bound) ==
    /\ subject = "graph"
    /\ modificationCount < bound
    /\ \E e \in EdgeInputs : Call("addEdge", e, addEdge(G, e))

RemoveEdgeCall(bound) ==
    /\ subject = "graph"
    /\ modificationCount < bound
    /\ \E a \in EdgeAddrs : Call("removeEdge", a, removeEdge(G, a))

\* g.nodes(options), g.edges(options) or g.neighbors(node, options): the run
\* holds the iterator returned.
NodesCall ==
    /\ subject = "graph"
    /\ iter = NoIter
    /\ \E o \in NodesOptions : iter' = nodesCall(G, o)
    /\ UNCHANGED <<subject, graphVars, last, payloadVars, world>>

EdgesCall ==
    /\ subject = "graph"
    /\ iter = NoIter
    /\ \E o \in EdgesOptions : iter' = edgesCall(G, o)
    /\ UNCHANGED <<subject, graphVars, last, payloadVars, world>>

NeighborsCall ==
    /\ subject = "graph"
    /\ iter = NoIter
    /\ \E o \in NeighborsOptions : iter' = neighborsCall(G, o)
    /\ UNCHANGED <<subject, graphVars, last, payloadVars, world>>

\* iterator.next()
IteratorNext ==
    /\ subject = "graph"
    /\ iter # NoIter
    /\ iter' = iteratorNext(G, iter)
    /\ UNCHANGED <<subject, graphVars, last, payloadVars, world>>

PayloadAddNodeCall ==
    /\ subject = "payload"
    /\ payloadMods < MaxPayloadMods
    /\ \E n \in PayloadNodeInputs : PayloadCall("addNode", n, payloadAddNode(payloadGraph, n))

PayloadRemoveNodeCall ==
    /\ subject = "payload"
    /\ payloadMods < MaxPayloadMods
    /\ \E a \in PayloadNodeAddrs :
          PayloadCall("removeNode", a, payloadRemoveNode(payloadGraph, a))

PayloadAddEdgeCall ==
    /\ subject = "payload"
    /\ payloadMods < MaxPayloadMods
    /\ \E e \in PayloadEdgeInputs : PayloadCall("addEdge", e, payloadAddEdge(payloadGraph, e))

PayloadRemoveEdgeCall ==
    /\ subject = "payload"
    /\ payloadMods < MaxPayloadMods
    /\ \E a \in PayloadEdgeAddrs :
          PayloadCall("removeEdge", a, payloadRemoveEdge(payloadGraph, a))

\* A graph of either class: any sequence of mutator calls.
Next ==
    \/ AddNodeCall(MaxMods)
    \/ RemoveNodeCall(MaxMods)
    \/ AddEdgeCall(MaxMods)
    \/ RemoveEdgeCall(MaxMods)
    \/ PayloadAddNodeCall
    \/ PayloadRemoveNodeCall
    \/ PayloadAddEdgeCall
    \/ PayloadRemoveEdgeCall

Spec == Init /\ [][Next]_vars

\* The graph and one iterator over it, advanced between the mutator calls.
NextIter ==
    \/ AddNodeCall(IterMaxMods)
    \/ RemoveNodeCall(IterMaxMods)
    \/ AddEdgeCall(IterMaxMods)
    \/ RemoveEdgeCall(IterMaxMods)
    \/ NodesCall
    \/ EdgesCall
    \/ NeighborsCall
    \/ IteratorNext

InitIter == Init /\ subject = "graph"

SpecIter == InitIter /\ [][NextIter]_vars

\* Two graphs, the mutators called on them, and the graphs made from them
\* by Graph.merge and copy, which are mutated in turn.
WorldAddNodeCall ==
    /\ subject = "merge"
    /\ world.mods < MergeMaxMods
    /\ \E i \in 1..Len(world.graphs) : \E a \in MergeNodeAddrs :
          WorldCall(i, "addNode", a, addNode(GraphAt(i), a))

WorldRemoveNodeCall ==
    /\ subject = "merge"
    /\ world.mods < MergeMaxMods
    /\ \E i \in 1..Len(world.graphs) : \E a \in MergeNodeAddrs :
          WorldCall(i, "removeNode", a, removeNode(GraphAt(i), a))

WorldAddEdgeCall ==
    /\ subject = "merge"
    /\ world.mods < MergeMaxMods
    /\ \E i \in 1..Len(world.graphs) : \E e \in MergeEdgeInputs :
          WorldCall(i, "addEdge", e, addEdge(GraphAt(i), e))

WorldRemoveEdgeCall ==
    /\ subject = "merge"
    /\ world.mods < MergeMaxMods
    /\ \E i \in 1..Len(world.graphs) : \E a \in MergeEdgeAddrs :
          WorldCall(i, "removeEdge", a, removeEdge(GraphAt(i), a))

MergeCall ==
    /\ subject = "merge"
    /\ \E inputs \in MergeInputs :
          \E st \in {merge(world.heap, [k \in 1..Len(inputs) |-> world.graphs[inputs[k]]])} :
              WorldResult("merge", inputs, st)

CopyCall ==
    /\ subject = "merge"
    /\ \E i \in 1..2 : \E st \in {copy(world.heap, world.graphs[i])} :
          WorldResult("copy", <<i>>, st)

NextMerge ==
    \/ WorldAddNodeCall
    \/ WorldRemoveNodeCall
    \/ WorldAddEdgeCall
    \/ WorldRemoveEdgeCall
    \/ MergeCall
    \/ CopyCall

InitMerge ==
    /\ subject = "merge"
    /\ nodes = EmptyGraph.nodes
    /\ edges = EmptyGraph.edges
    /\ inEdges = EmptyGraph.inEdges
    /\ outEdges = EmptyGraph.outEdges
    /\ modificationCount = EmptyGraph.modificationCount
    /\ last = [op |-> "new", arg |-> Undefined, threw |-> "none"]
    /\ iter = NoIter
    /\ payloadGraph = EmptyPayloadGraph
    /\ payloadMods = 0
    /\ world = TwoGraphs

SpecMerge == InitMerge /\ [][NextMerge]_vars

\* A graph that has been modified so often that its counter is near
\* Number.MAX_SAFE_INTEGER (an empty graph, after as many addNode and
\* removeNode calls), and the mutators called on it without end.
CapAddNodeCall ==
    /\ subject = "graph"
    /\ \E a \in MergeNodeAddrs : Call("addNode", a, addNode(G, a))

CapRemoveNodeCall ==
    /\ subject = "graph"
    /\ \E a \in MergeNodeAddrs : Call("removeNode", a, removeNode(G, a))

CapAddEdgeCall ==
    /\ subject = "graph"
    /\ \E e \in MergeEdgeInputs : Call("addEdge", e, addEdge(G, e))

CapRemoveEdgeCall ==
    /\ subject = "graph"
    /\ \E a \in MergeEdgeAddrs : Call("removeEdge", a, removeEdge(G, a))

NextCap ==
    \/ CapAddNodeCall
    \/ CapRemoveNodeCall
    \/ CapAddEdgeCall
    \/ CapRemoveEdgeCall

InitCap ==
    /\ subject = "graph"
    /\ nodes = EmptyGraph.nodes
    /\ edges = EmptyGraph.edges
    /\ inEdges = EmptyGraph.inEdges
    /\ outEdges = EmptyGraph.outEdges
    /\ modificationCount = MAX_SAFE_INTEGER - CapMargin
    /\ last = [op |-> "new", arg |-> Undefined, threw |-> "none"]
    /\ iter = NoIter
    /\ payloadGraph = EmptyPayloadGraph
    /\ payloadMods = 0
    /\ world = NoWorld

SpecCap == InitCap /\ [][NextCap]_vars

\* The graph called with addresses of either module where an address of one
\* module is expected.
AnyAddrs == NodeAddrs \cup EdgeAddrs

AnyEdgeInputs ==
    {[address |-> a, src |-> s, dst |-> d] : a \in AnyAddrs, s \in AnyAddrs, d \in AnyAddrs}

\* A call of hasNode, hasEdge or edge
ReadCall(op, arg, r) ==
    /\ last' = [op |-> op, arg |-> arg] @@ r
    /\ UNCHANGED <<subject, graphVars, iter, payloadVars, world>>

KindAddNodeCall ==
    /\ subject = "graph"
    /\ modificationCount < KindMaxMods
    /\ \E a \in AnyAddrs : Call("addNode", a, addNode(G, a))

KindRemoveNodeCall ==
    /\ subject = "graph"
    /\ modificationCount < KindMaxMods
    /\ \E a \in AnyAddrs : Call("removeNode", a, removeNode(G, a))

KindAddEdgeCall ==
    /\ subject = "graph"
    /\ modificationCount < KindMaxMods
    /\ \E e \in AnyEdgeInputs : Call("addEdge", e, addEdge(G, e))

KindRemoveEdgeCall ==
    /\ subject = "graph"
    /\ modificationCount < KindMaxMods
    /\ \E a \in AnyAddrs : Call("removeEdge", a, removeEdge(G, a))

HasNodeCall ==
    /\ subject = "graph"
    /\ \E a \in AnyAddrs : ReadCall("hasNode", a, hasNodeCall(G, a))

HasEdgeCall ==
    /\ subject = "graph"
    /\ \E a \in AnyAddrs : ReadCall("hasEdge", a, hasEdgeCall(G, a))

EdgeCall ==
    /\ subject = "graph"
    /\ \E a \in AnyAddrs : ReadCall("edge", a, edgeCall(G, a))

NextKind ==
    \/ KindAddNodeCall
    \/ KindRemoveNodeCall
    \/ KindAddEdgeCall
    \/ KindRemoveEdgeCall
    \/ HasNodeCall
    \/ HasEdgeCall
    \/ EdgeCall

SpecKind == InitIter /\ [][NextKind]_vars

\* The graph written as JSON and graphs read from JSON, under the envelope
\* of the graph format and under others.
Envelopes ==
    {[type |-> t, version |-> v] :
        t \in {"sourcecred/graph", "sourcecred/weightedGraph"},
        v \in {"0.4.0", "0.3.0"}}

\* Data from which no graph can be built: the edge's endpoints are indices
\* of no node
DanglingData ==
    [nodes |-> <<>>, edges |-> <<[address |-> <<1>>, srcIndex |-> 0, dstIndex |-> 0]>>]

\* Data with one more edge entry than toJSON has written: at the address of
\* an entry or at another, its srcIndex and dstIndex inside the node list,
\* one below it or one above it
EntryAdded(data) ==
    {[data EXCEPT !.edges = Append(@, [address |-> ToParts(a), srcIndex |-> s, dstIndex |-> d])] :
        a \in EdgeAddrs, s \in (0 - 1)..Len(data.nodes), d \in (0 - 1)..Len(data.nodes)}

\* The JSON values that fromJSON is called with: the data of what toJSON
\* has returned for the graph of the run, and the dangling data, under each
\* envelope; and the data with an entry added, under the envelope of the
\* graph format
JSONInputs(written) ==
    {toCompat(envelope, data) :
        envelope \in Envelopes,
        data \in {DanglingData} \cup
                 (IF written.threw = "none" THEN {written.json.data} ELSE {})}
    \cup {toCompat(COMPAT_INFO, data) :
              data \in IF written.threw = "none" THEN EntryAdded(written.json.data) ELSE {}}

\* g.toJSON()
ToJSONCall ==
    /\ subject = "graph"
    /\ \E r \in {toJSON(G)} :
          last' = [op |-> "toJSON", arg |-> Undefined, threw |-> r.threw, value |-> r.json]
    /\ UNCHANGED <<subject, graphVars, iter, payloadVars, world>>

\* Graph.fromJSON(json): the run keeps what the call returned, which is
\* nothing when it threw.  The call is static and leaves the graph of the
\* run alone, so a call that follows another one reaches nothing new and is
\* left out.
FromJSONCall ==
    /\ subject = "graph"
    /\ last.op # "fromJSON"
    /\ \E written \in {toJSON(G)} : \E json \in JSONInputs(written) : \E r \in {fromJSON(json)} :
          last' = [op |-> "fromJSON", arg |-> json, threw |-> r.threw,
                   value |-> IF r.threw = "none" THEN r.graph ELSE Undefined]
    /\ UNCHANGED <<subject, graphVars, iter, payloadVars, world>>

NextJSON ==
    \/ AddNodeCall(JSONMaxMods)
    \/ AddEdgeCall(JSONMaxMods)
    \/ RemoveEdgeCall(JSONMaxMods)
    \/ ToJSONCall
    \/ FromJSONCall

SpecJSON == InitIter /\ [][NextJSON]_vars

\* The graph is built by mutator calls; then an iterator is made, and the
\* reads are called between its advances.
ReadMaxMods == 2

EqualsCall ==
    /\ subject = "graph"
    /\ \E that \in {EmptyGraph, G} :
          ReadCall("equals", that, [threw |-> "none", value |-> equals(G, that)])

\* copy() called on the graph as an object of a heap of its own: the graph is
\* afterwards what the heap has for the object
GraphCopyCall ==
    /\ subject = "graph"
    /\ \E held \in {heapCall(newGraph(EmptyHeap), Returned(G))} :
       \E st \in {copy(held.heap, held.obj)} :
          /\ SetGraph(Load(st.heap, held.obj))
          /\ last' = [op |-> "copy", arg |-> Undefined, threw |-> st.threw,
                      value |-> IF st.threw = "none" THEN Load(st.heap, st.obj)
                                ELSE Undefined]
    /\ UNCHANGED <<subject, iter, payloadVars, world>>

NextRead ==
    \/ iter = NoIter /\ AddNodeCall(ReadMaxMods)
    \/ iter = NoIter /\ AddEdgeCall(ReadMaxMods)
    \/ iter = NoIter /\ RemoveEdgeCall(ReadMaxMods)
    \/ NodesCall
    \/ EdgesCall
    \/ NeighborsCall
    \/ IteratorNext
    \/ HasNodeCall
    \/ HasEdgeCall
    \/ EdgeCall
    \/ EqualsCall
    \/ GraphCopyCall
    \/ ToJSONCall

SpecRead == InitIter /\ [][NextRead]_vars

-----------------------------------------------------------------------------
(* The decomposition of scores, src/analysis/pagerankNodeDecomposition.js. *)
(* A NodeScore is a Map from node addresses to scores, a NodeToConnections *)
(* a Map from node addresses to arrays of connections; both are functions  *)
(* here.  Weights and scores are numbers of equal units, so that products  *)
(* and comparisons are exact.                                              *)

\* adjacencySource: the node a connection of the target comes from
adjacencySource(target, adjacency) ==
    IF adjacency.type = "SYNTHETIC_LOOP" THEN target
    ELSE IF adjacency.type = "IN_EDGE" THEN adjacency.edge.src
    ELSE adjacency.edge.dst

\* The callback of connections.map that scores by the target's own score
scoreConnectionByTarget(pr, target, connection) ==
    LET source == adjacencySource(target, connection.adjacency)
    IN  IF source \notin DOMAIN pr THEN [threw |-> "null"]
        ELSE [threw |-> "none",
              value |-> [connection |-> connection, source |-> source,
                         connectionScore |-> connection.weight * pr[target]]]

\* The callback of connections.map in decompose: NullUtil.get throws for a
\* source without a score.
scoreConnection(pr, target, connection) ==
    LET source == adjacencySource(target, connection.adjacency)
    IN  IF source \notin DOMAIN pr THEN [threw |-> "null"]
        ELSE [threw |-> "none",
              value |-> [connection |-> connection, source |-> source,
                         connectionScore |-> connection.weight * pr[source]]]

\* The first UTF-16 code unit of each adjacency type's name, by which the
\* names are ordered as strings: I, O, S.
TypeNameOrder == [IN_EDGE |-> 73, OUT_EDGE |-> 79, SYNTHETIC_LOOP |-> 83]

\* The empty string, as an address string without nonce and parts
EmptyString == [kind |-> "", parts |-> <<>>]

\* The third iteratee of the sortBy of decompose
addressIteratee(x) ==
    IF x.connection.adjacency.type = "SYNTHETIC_LOOP" THEN EmptyString
    ELSE x.connection.adjacency.edge.address

\* The order by the first two iteratees only
iterateesLessWithoutAddress(x, y) ==
    IF 0 - x.connectionScore # 0 - y.connectionScore
    THEN 0 - x.connectionScore < 0 - y.connectionScore
    ELSE TypeNameOrder[x.connection.adjacency.type] <
             TypeNameOrder[y.connection.adjacency.type]

\* lodash's comparison of two elements by the three iteratees of decompose,
\* each ascending, the next deciding when the one before is equal
iterateesLess(x, y) ==
    IF 0 - x.connectionScore # 0 - y.connectionScore
    THEN 0 - x.connectionScore < 0 - y.connectionScore
    ELSE IF x.connection.adjacency.type # y.connection.adjacency.type
    THEN TypeNameOrder[x.connection.adjacency.type] <
             TypeNameOrder[y.connection.adjacency.type]
    ELSE StringLess(addressIteratee(x), addressIteratee(y))

\* lodash's sortBy with the iteratees of decompose: a stable ascending sort
RECURSIVE insertByIteratees(_, _)
insertByIteratees(sorted, x) ==
    IF sorted = <<>> THEN <<x>>
    ELSE IF iterateesLess(x, Head(sorted)) THEN <<x>> \o sorted
    ELSE <<Head(sorted)>> \o insertByIteratees(Tail(sorted), x)

RECURSIVE sortByIteratees(_)
sortByIteratees(array) ==
    IF array = <<>> THEN <<>>
    ELSE insertByIteratees(sortByIteratees(SubSeq(array, 1, Len(array) - 1)),
                           array[Len(array)])

\* The callback of MapUtil.mapValues in decompose, for one target
decomposeTarget(pr, target, connections) ==
    LET scored == [i \in 1..Len(connections) |-> scoreConnection(pr, target, connections[i])]
    IN  IF target \notin DOMAIN pr THEN [threw |-> "null"]
        ELSE IF \E i \in 1..Len(scored) : scored[i].threw # "none" THEN [threw |-> "null"]
        ELSE [threw |-> "none",
              value |-> [score |-> pr[target],
                         scoredConnections |->
                             sortByIteratees([i \in 1..Len(scored) |-> scored[i].value])]]

\* decompose
decompose(pr, connections) ==
    LET entries == [target \in DOMAIN connections |->
                       decomposeTarget(pr, target, connections[target])]
    IN  IF \E target \in DOMAIN entries : entries[target].threw # "none"
        THEN [threw |-> "null", value |-> Undefined]
        ELSE [threw |-> "none",
              value |-> [target \in DOMAIN entries |-> entries[target].value]]

\* The graph the connections are of: two nodes, two edges from the second
\* to the first and a loop on the first
DecomposeEdges ==
    {[address |-> EdgeAddress(<<1>>), src |-> SecondNode, dst |-> FirstNode],
     [address |-> EdgeAddress(<<2>>), src |-> SecondNode, dst |-> FirstNode],
     [address |-> EdgeAddress(<<1, 1>>), src |-> FirstNode, dst |-> FirstNode]}

\* The adjacencies of a node: its synthetic loop, an IN_EDGE for every edge
\* to it and an OUT_EDGE for every edge from it
Adjacencies(target) ==
    {[type |-> "SYNTHETIC_LOOP"]}
    \cup {[type |-> "IN_EDGE", edge |-> e] : e \in {d \in DecomposeEdges : d.dst = target}}
    \cup {[type |-> "OUT_EDGE", edge |-> e] : e \in {d \in DecomposeEdges : d.src = target}}

Weights == {1, 2}

Scores == {0, 1, 2}

\* The arrays of connections of a node: some of its adjacencies, each once
\* and with a weight, in any order
ConnectionArrays(target) ==
    LET all == {[adjacency |-> a, weight |-> w] : a \in Adjacencies(target), w \in Weights}
    IN  UNION {{array \in [1..n -> all] :
                    \A i, j \in 1..n : i < j => array[i].adjacency # array[j].adjacency} :
               n \in 0..MaxConnections}

\* The connections of the second node in the runs
SecondNodeArrays ==
    {<<>>,
     <<[adjacency |-> [type |-> "SYNTHETIC_LOOP"], weight |-> 1]>>,
     <<[adjacency |-> [type |-> "OUT_EDGE",
                       edge |-> [address |-> EdgeAddress(<<1>>), src |-> SecondNode,
                                 dst |-> FirstNode]],
        weight |-> 2],
       [adjacency |-> [type |-> "SYNTHETIC_LOOP"], weight |-> 1]>>}

\* The NodeToConnections maps and the NodeScore maps decompose is called with
ConnectionMaps ==
    {[target \in {} |-> <<>>]}
    \cup {(FirstNode :> first) : first \in ConnectionArrays(FirstNode)}
    \cup {(FirstNode :> first) @@ (SecondNode :> second) :
             first \in ConnectionArrays(FirstNode), second \in SecondNodeArrays}

NodeScores ==
    UNION {[scored -> Scores] : scored \in SUBSET {FirstNode, SecondNode}}

\* decompose(pr, connections), the one call of the run
DecomposeCall ==
    /\ subject = "decompose"
    /\ last.op = "new"
    /\ \E pr \in NodeScores : \E connections \in ConnectionMaps :
          \E r \in {decompose(pr, connections)} :
             last' = [op |-> "decompose", arg |-> [pr |-> pr, connections |-> connections],
                      threw |-> r.threw, value |-> r.value]
    /\ UNCHANGED <<subject, graphVars, iter, payloadVars, world>>

InitDecompose ==
    /\ subject = "decompose"
    /\ nodes = EmptyGraph.nodes
    /\ edges = EmptyGraph.edges
    /\ inEdges = EmptyGraph.inEdges
    /\ outEdges = EmptyGraph.outEdges
    /\ modificationCount = EmptyGraph.modificationCount
    /\ last = [op |-> "new", arg |-> Undefined, threw |-> "none"]
    /\ iter = NoIter
    /\ payloadGraph = EmptyPayloadGraph
    /\ payloadMods = 0
    /\ world = NoWorld

SpecDecompose == InitDecompose /\ [][DecomposeCall]_vars

-----------------------------------------------------------------------------
(* The Markov chain of a graph, as pagerank (src/analysis/pagerank.js)      *)
(* builds it with createConnections.  Weights are numbers of equal units;  *)
(* a normalized weight is kept as the fraction num / den, so that sums are *)
(* exact.                                                                  *)

\* The edge evaluators pagerank is called with: the weights {forwards,
\* backwards} they give an edge
edgeWeight(evaluator, e) ==
    IF evaluator = "even" THEN [forwards |-> 1, backwards |-> 1]
    ELSE IF evaluator = "forwards" THEN [forwards |-> 2, backwards |-> 0]
    ELSE [forwards |-> 1 + Len(e.address.parts), backwards |-> IF e.src = e.dst THEN 0 ELSE 3]

EdgeEvaluators == {"even", "forwards", "byEdge"}

SelfLoopWeights == {1, 3}

\* createConnections, the connections in the order they are processed, each
\* with its target: the synthetic loop of every node, then for every edge
\* the IN_EDGE to its dst and the OUT_EDGE to its src
processedConnections(g, evaluator, selfLoopWeight) ==
    [i \in 1..Len(g.nodes) |->
        [target |-> g.nodes[i],
         connection |-> [adjacency |-> [type |-> "SYNTHETIC_LOOP"], weight |-> selfLoopWeight]]]
    \o [k \in 1..(2 * Len(g.edges)) |->
           LET e == g.edges[(k + 1) \div 2].value
           IN  IF k % 2 = 1
               THEN [target |-> e.dst,
                     connection |-> [adjacency |-> [type |-> "IN_EDGE", edge |-> e],
                                     weight |-> edgeWeight(evaluator, e).forwards]]
               ELSE [target |-> e.src,
                     connection |-> [adjacency |-> [type |-> "OUT_EDGE", edge |-> e],
                                     weight |-> edgeWeight(evaluator, e).backwards]]]

\* The sum of the weights of the processed connections that the test passes
RECURSIVE sumWeights(_, _)
sumWeights(processed, passes) ==
    IF processed = <<>> THEN 0
    ELSE (IF Head(passes) THEN Head(processed).connection.weight ELSE 0)
             + sumWeights(Tail(processed), Tail(passes))

\* The total that takes the connections into a node instead of those out of it
totalInWeight(processed, node) ==
    sumWeights(processed, [i \in 1..Len(processed) |-> processed[i].target = node])

\* createConnections, totalOutWeight of a node: the sum of the weights of
\* the connections that have it as source
totalOutWeight(processed, node) ==
    sumWeights(processed,
               [i \in 1..Len(processed) |->
                   adjacencySource(processed[i].target, processed[i].connection.adjacency)
                       = node])

\* createConnections: for every node the connections into it, each weight
\* divided by the total out-weight of the connection's source
createConnections(g, evaluator, selfLoopWeight) ==
    LET processed == processedConnections(g, evaluator, selfLoopWeight)
        into(node) == SelectSeq(processed, LAMBDA x : x.target = node)
    IN  [node \in Range(g.nodes) |->
            [i \in 1..Len(into(node)) |->
                LET connection == into(node)[i].connection
                IN  [adjacency |-> connection.adjacency,
                     weight |-> [num |-> connection.weight,
                                 den |-> totalOutWeight(processed,
                                            adjacencySource(node, connection.adjacency))]]]]

-----------------------------------------------------------------------------
(* Two payload-carrying graphs and the graphs merged from them.            *)

\* The nodes and edges the calls on the two graphs draw from
PairNodeInputs ==
    {[address |-> PayloadAddress("USER", 1), payload |-> 1],
     [address |-> PayloadAddress("USER", 1), payload |-> 2],
     [address |-> PayloadAddress("REPO", 2), payload |-> 1]}

PairEdgeInputs ==
    {[address |-> PayloadAddress("AUTHORS", 1), src |-> PayloadAddress("USER", 1),
      dst |-> PayloadAddress("REPO", 2), payload |-> 1],
     [address |-> PayloadAddress("AUTHORS", 1), src |-> PayloadAddress("USER", 1),
      dst |-> PayloadAddress("REPO", 2), payload |-> 2],
     [address |-> PayloadAddress("REFERENCES", 2), src |-> PayloadAddress("REPO", 2),
      dst |-> PayloadAddress("REPO", 2), payload |-> 1]}

Resolvers == {"first", "second", "sum", "conservative"}

\* The lists of graphs mergeManyConservative is called with, as positions
\* among the two graphs of the run
ManyInputs ==
    {<<>>} \cup {<<i>> : i \in 1..2} \cup {<<i, j>> : i, j \in 1..2}
        \cup {<<i, j, k>> : i, j, k \in 1..2}

\* Two graphs of the payload-carrying class, just constructed
TwoPayloadGraphs ==
    [heap |-> EmptyHeap, graphs |-> <<EmptyPayloadGraph, EmptyPayloadGraph>>, mods |-> 0,
     call |-> [op |-> "new"]]

\* A call of a mutator on one of the two graphs
PairCall(i, op, arg, r) ==
    /\ world' = [world EXCEPT !.graphs[i] = r.graph, !.mods = @ + 1,
                              !.call = [op |-> op, threw |-> r.threw]]
    /\ UNCHANGED <<subject, graphVars, last, iter, payloadVars>>

\* A call of a static merge function: the run keeps the outcome and, when
\* the call returned, the graph returned.
PairResult(op, inputs, r) ==
    /\ world' = [world EXCEPT !.call =
                     [op |-> op, inputs |-> inputs, threw |-> r.threw,
                      result |-> IF r.threw = "none" THEN r.graph ELSE Undefined]]
    /\ UNCHANGED <<subject, graphVars, last, iter, payloadVars>>

PairAddNodeCall ==
    /\ subject = "pair"
    /\ world.mods < PairMaxMods
    /\ \E i \in 1..2 : \E n \in PairNodeInputs :
          PairCall(i, "addNode", n, payloadAddNode(world.graphs[i], n))

PairAddEdgeCall ==
    /\ subject = "pair"
    /\ world.mods < PairMaxMods
    /\ \E i \in 1..2 : \E e \in PairEdgeInputs :
          PairCall(i, "addEdge", e, payloadAddEdge(world.graphs[i], e))

\* Graph.merge(g1, g2, nodeResolver, edgeResolver)
PayloadMergeCall ==
    /\ subject = "pair"
    /\ \E i, j \in 1..2 : \E nodeResolver, edgeResolver \in Resolvers \ {"conservative"} :
          \E r \in {payloadMerge(world.graphs[i], world.graphs[j], nodeResolver,
                                 edgeResolver)} :
             PairResult("merge", <<i, j, nodeResolver, edgeResolver>>, r)

\* Graph.mergeConservative(g1, g2)
PayloadMergeConservativeCall ==
    /\ subject = "pair"
    /\ \E i, j \in 1..2 :
          \E r \in {payloadMergeConservative(world.graphs[i], world.graphs[j])} :
             PairResult("mergeConservative", <<i, j>>, r)

\* Graph.mergeManyConservative(graphs)
PayloadMergeManyConservativeCall ==
    /\ subject = "pair"
    /\ \E inputs \in ManyInputs :
          \E r \in {payloadMergeManyConservative(
                        [k \in 1..Len(inputs) |-> world.graphs[inputs[k]]])} :
             PairResult("mergeManyConservative", inputs, r)

NextPair ==
    \/ PairAddNodeCall
    \/ PairAddEdgeCall
    \/ PayloadMergeCall
    \/ PayloadMergeConservativeCall
    \/ PayloadMergeManyConservativeCall

InitPair ==
    /\ subject = "pair"
    /\ nodes = EmptyGraph.nodes
    /\ edges = EmptyGraph.edges
    /\ inEdges = EmptyGraph.inEdges
    /\ outEdges = EmptyGraph.outEdges
    /\ modificationCount = EmptyGraph.modificationCount
    /\ last = [op |-> "new", arg |-> Undefined, threw |-> "none"]
    /\ iter = NoIter
    /\ payloadGraph = EmptyPayloadGraph
    /\ payloadMods = 0
    /\ world = TwoPayloadGraphs

SpecPair == InitPair /\ [][NextPair]_vars

-----------------------------------------------------------------------------
(* Properties of the Graph of src/core/graph.js under mutation.            *)

\* The edges the graph holds
StoredEdges == {edges[i].value : i \in 1..Len(edges)}

\* The stored edges that have the node as src or dst
Incident(a) == {e \in StoredEdges : e.src = a \/ e.dst = a}

\* C1: after every call of addNode, addEdge, removeNode or removeEdge,
\* whether it returned or threw, checkInvariants() succeeds.
C1_CheckInvariantsSucceeds == subject = "graph" => checkInvariants(G)

\* A rejected call on a graph that holds two nodes and an edge between them
C1_Witness ==
    /\ subject = "graph"
    /\ last.threw # "none"
    /\ Len(nodes) = 2
    /\ \E e \in StoredEdges : e.src # e.dst

\* C2: there is no dangling edge: for every edge address for which hasEdge
\* holds, hasNode holds of the edge's src and of its dst.
C2_NoDanglingEdge ==
    subject = "graph" =>
        \A a \in EdgeAddrs :
            hasEdge(G, a) => hasNode(G, edge(G, a).src) /\ hasNode(G, edge(G, a).dst)

\* A node was removed while the graph holds an edge
C2_Witness ==
    /\ subject = "graph"
    /\ last.op = "removeNode"
    /\ last.threw = "none"
    /\ ~hasNode(G, last.arg)
    /\ \E a \in EdgeAddrs : hasEdge(G, a)

\* C3: removeNode(a) throws exactly when some edge of the graph has a as src
\* or dst, a self-loop included, and otherwise returns with a removed; so it
\* succeeds once every incident edge is removed.  (removeNode changes no
\* edge, so the edges after the call are those before it.)
C3_RemoveNodeFailsIffIncident ==
    (subject = "graph" /\ last.op = "removeNode") =>
        /\ (last.threw # "none") <=> (Incident(last.arg) # {})
        /\ (last.threw = "none") => ~hasNode(G, last.arg)

\* removeNode was refused for a node whose only incident edge is a self-loop
C3_Witness ==
    /\ subject = "graph"
    /\ last.op = "removeNode"
    /\ last.threw = "incident edges"
    /\ Incident(last.arg) # {}
    /\ \A e \in Incident(last.arg) : e.src = e.dst

\* A step that is a call of addEdge on the graph
AddEdgeStep == subject = "graph" /\ last'.op = "addEdge"

\* The content of the graph is the same after the step
ContentUnchanged == UNCHANGED <<nodes, edges, inEdges, outEdges>>

\* C4: addEdge with an edge whose address, src and dst equal those of an
\* edge of the graph returns normally and leaves the node set, the edge map
\* and both adjacency lists as they were.
C4_AddEdgeIdempotent ==
    [][(AddEdgeStep /\ edge(G, last'.arg.address) = last'.arg)
          => (last'.threw = "none" /\ ContentUnchanged)]_vars

\* addEdge has returned for a self-loop after three modifications of a graph
\* of one node, and the edge is once in each adjacency list of its node
C4_Witness ==
    /\ subject = "graph"
    /\ last.op = "addEdge"
    /\ last.threw = "none"
    /\ last.arg.src = last.arg.dst
    /\ modificationCount = 3
    /\ Len(nodes) = 1
    /\ inEdges[last.arg.dst] = <<last.arg>>
    /\ outEdges[last.arg.src] = <<last.arg>>

\* C5: addEdge throws when the graph holds an edge at the same address with
\* a different src or a different dst, and the stored edge stays as it was.
C5_AddEdgeConflictFails ==
    [][(/\ AddEdgeStep
        /\ hasEdge(G, last'.arg.address)
        /\ \/ edge(G, last'.arg.address).src # last'.arg.src
           \/ edge(G, last'.arg.address).dst # last'.arg.dst)
          => (/\ last'.threw # "none"
              /\ ContentUnchanged
              /\ EdgesGet(edges', last'.arg.address) = edge(G, last'.arg.address))]_vars

\* addEdge was refused for an edge that differs from the stored one in its
\* dst only, both endpoints being nodes of the graph
C5_Witness ==
    /\ subject = "graph"
    /\ last.op = "addEdge"
    /\ last.threw = "conflict"
    /\ hasEdge(G, last.arg.address)
    /\ edge(G, last.arg.address).src = last.arg.src
    /\ edge(G, last.arg.address).dst # last.arg.dst

\* C6: addEdge throws when its src or its dst is not a node of the graph,
\* and the edge is not stored (the graph is left as it was).
C6_AddEdgeMissingEndpointFails ==
    [][(AddEdgeStep /\ (~hasNode(G, last'.arg.src) \/ ~hasNode(G, last'.arg.dst)))
          => (/\ last'.threw # "none"
              /\ ContentUnchanged
              /\ EdgesGet(edges', last'.arg.address) # last'.arg)]_vars

\* addEdge was refused, after three modifications, for an edge whose src is
\* a node of the graph and whose dst is not
C6_Witness ==
    /\ subject = "graph"
    /\ last.op = "addEdge"
    /\ last.threw = "Missing dst"
    /\ hasNode(G, last.arg.src)
    /\ ~hasNode(G, last.arg.dst)
    /\ modificationCount = 3

-----------------------------------------------------------------------------
(* Properties of the iterators.                                            *)

\* A step that is an advance of the open iterator
IteratorNextStep ==
    /\ iter # NoIter
    /\ iter' = iteratorNext(G, iter)
    /\ UNCHANGED <<graphVars, last>>

\* C7: when a mutator has returned normally since the iterator was created
\* and the iterator is not exhausted, its next advance throws the
\* concurrent-modification error (and so yields nothing).
C7_AdvanceAfterMutationThrowsComodification ==
    [][(IteratorNextStep /\ ~iter.done /\ iter.mutated)
          => iter'.out = [type |-> "throw", error |-> "Concurrent modification detected"]]_vars

\* What the code does keep of C7: such an advance throws, the concurrent-
\* modification error unless it is the first advance of a neighbors iterator
\* whose node is gone, and no element is yielded.
C7_AdvanceAfterMutationThrows ==
    [][(IteratorNextStep /\ ~iter.done /\ iter.mutated)
          => /\ iter'.out.type = "throw"
             /\ iter'.done
             /\ \/ iter'.out.error = "Concurrent modification detected"
                \/ /\ iter.kind = "neighbors"
                   /\ ~iter.started
                   /\ ~hasNode(G, iter.options.node)]_vars

\* How many elements of the array have the edge as their edge
TimesYielded(array, e) == Cardinality({i \in 1..Len(array) : array[i].edge = e})

\* The edges the payload-carrying graph holds
PayloadStoredEdges == {payloadGraph.edges[a] : a \in DOMAIN payloadGraph.edges}

\* C8: for a self-loop edge e on a node n, a neighbors query on n with
\* direction ANY and filters that e and n pass gives e exactly once; for
\* Graph.neighbors (iterated to its end) and for the payload-carrying
\* graph's neighborhood.
C8_SelfLoopYieldedOnce ==
    /\ subject = "graph" =>
          \A o \in NeighborsOptions : \A e \in StoredEdges :
              (/\ o.direction = "ANY"
               /\ e.src = o.node
               /\ e.dst = o.node
               /\ HasPrefix(o.node, o.nodePrefix)
               /\ HasPrefix(e.address, o.edgePrefix))
                 => LET all == arrayFrom(G, neighborsCall(G, o))
                    IN  all.threw = "none" /\ TimesYielded(all.values, e) = 1
    /\ subject = "payload" =>
          \A o \in NeighborhoodOptions : \A e \in PayloadStoredEdges :
              (/\ o.direction \in {"ANY", NotGiven}
               /\ e.src = e.dst
               /\ o.nodeType \in {e.src.type, NotGiven}
               /\ o.edgeType \in {e.address.type, NotGiven})
                 => LET all == neighborhood(payloadGraph, e.src, o)
                    IN  all.threw = "none" /\ TimesYielded(all.result, e) = 1

\* A node with a self-loop and an edge from another node: its neighbors with
\* direction ANY are the two edges, the self-loop once
C8_Witness ==
    /\ subject = "graph"
    /\ \E n \in NodeAddrs : \E e1, e2 \in StoredEdges :
          /\ e1.src = n /\ e1.dst = n
          /\ e2.src # n /\ e2.dst = n
          /\ LET all == arrayFrom(G, neighborsCall(G,
                            [node |-> n, direction |-> "ANY",
                             nodePrefix |-> NodeAddress(<<>>),
                             edgePrefix |-> EdgeAddress(<<>>)]))
             IN  /\ Len(all.values) = 2
                 /\ TimesYielded(all.values, e1) = 1
                 /\ TimesYielded(all.values, e2) = 1

-----------------------------------------------------------------------------
(* Properties of the serialization.                                        *)

\* The edges a graph value holds
EdgesOf(g) == {g.edges[i].value : i \in 1..Len(g.edges)}

\* C9: for every reachable graph g, Graph.fromJSON(g.toJSON()) succeeds and
\* equals g: it has the same node set and the same edges with the same src
\* and dst.
C9_FromJSONOfToJSONEquals ==
    subject = "graph" =>
        LET json == toJSON(G)
        IN  /\ json.threw = "none"
            /\ LET result == fromJSON(json.json)
               IN  /\ result.threw = "none"
                   /\ equals(result.graph, G)
                   /\ Range(result.graph.nodes) = Range(nodes)
                   /\ EdgesOf(result.graph) = StoredEdges

\* A graph of two nodes and two edges, one of them between the two nodes,
\* that is rebuilt from its JSON with its nodes in another order
C9_Witness ==
    /\ subject = "graph"
    /\ Len(nodes) = 2
    /\ Len(edges) = 2
    /\ \E e \in StoredEdges : e.src # e.dst
    /\ LET result == fromJSON(toJSON(G).json)
       IN  /\ result.threw = "none"
           /\ equals(result.graph, G)
           /\ result.graph.nodes # nodes

\* The sequence that lists the addresses of a set in ascending order
Ascending(S) ==
    CHOOSE s \in [1..Cardinality(S) -> S] :
        /\ Range(s) = S
        /\ \A i \in 1..(Len(s) - 1) : StringLess(s[i], s[i + 1])

\* The JSON that the node set and the edge set determine: the nodes in
\* ascending order, the edges in ascending order of their addresses, each
\* with the positions of its src and dst among the nodes
CanonicalJSON(nodeSet, edgeSet) ==
    LET ns == Ascending(nodeSet)
        as == Ascending({e.address : e \in edgeSet})
        EdgeAt(a) == CHOOSE e \in edgeSet : e.address = a
        Position(n) == (CHOOSE i \in 1..Len(ns) : ns[i] = n) - 1
    IN  [compat |-> [type |-> "sourcecred/graph", version |-> "0.4.0"],
         data |-> [nodes |-> [i \in 1..Len(ns) |-> ns[i].parts],
                   edges |-> [i \in 1..Len(as) |->
                                 [srcIndex |-> Position(EdgeAt(as[i]).src),
                                  dstIndex |-> Position(EdgeAt(as[i]).dst),
                                  address |-> as[i].parts]]]]

\* C10: toJSON lists the nodes in ascending address order and the edges in
\* ascending edge-address order, each edge's srcIndex and dstIndex are the
\* in-range positions of its src and dst in the sorted node list, and the
\* JSON is the one the node set and the edge set determine, whatever order
\* of additions and removals built the graph.
C10_ToJSONCanonical ==
    subject = "graph" =>
        LET json == toJSON(G)
        IN  /\ json.threw = "none"
            /\ LET ns == json.json.data.nodes
                   es == json.json.data.edges
               IN  /\ \A i \in 1..(Len(ns) - 1) :
                          StringLess(NodeFromParts(ns[i]), NodeFromParts(ns[i + 1]))
                   /\ \A i \in 1..(Len(es) - 1) :
                          StringLess(EdgeFromParts(es[i].address),
                                     EdgeFromParts(es[i + 1].address))
                   /\ \A i \in 1..Len(es) :
                          LET e == edge(G, EdgeFromParts(es[i].address))
                          IN  /\ es[i].srcIndex \in 0..(Len(ns) - 1)
                              /\ es[i].dstIndex \in 0..(Len(ns) - 1)
                              /\ NodeFromParts(ns[es[i].srcIndex + 1]) = e.src
                              /\ NodeFromParts(ns[es[i].dstIndex + 1]) = e.dst
            /\ json.json = CanonicalJSON(Range(nodes), StoredEdges)

\* A graph whose nodes and whose edges were added in descending order, with
\* an edge between the two nodes: its JSON lists them in ascending order
C10_Witness ==
    /\ subject = "graph"
    /\ Len(nodes) = 2
    /\ Len(edges) = 2
    /\ StringLess(nodes[2], nodes[1])
    /\ StringLess(edges[2].key, edges[1].key)
    /\ \E e \in StoredEdges : e.src # e.dst
    /\ LET data == toJSON(G).json.data
       IN  /\ NodeFromParts(data.nodes[1]) = nodes[2]
           /\ EdgeFromParts(data.edges[1].address) = edges[2].key
           /\ \E i \in 1..2 : data.edges[i].srcIndex # data.edges[i].dstIndex

-----------------------------------------------------------------------------
(* Properties of Graph.merge and copy.                                     *)

\* A step that is a call of Graph.merge on the graphs at the given positions
MergeStep(inputs) ==
    /\ subject = "merge"
    /\ world' # world
    /\ world'.call.op = "merge"
    /\ world'.call.inputs = inputs

\* Whether two of the graphs hold an edge at the same address with another
\* src or dst
EdgeConflict(graphs) ==
    \E j, k \in 1..Len(graphs) : \E e \in EdgesOf(graphs[j]) : \E f \in EdgesOf(graphs[k]) :
        e.address = f.address /\ (e.src # f.src \/ e.dst # f.dst)

\* C11: Graph.merge(graphs) fails exactly when two inputs hold an edge at the
\* same address with a different src or dst, and otherwise returns a graph
\* whose node set is the union of the inputs' node sets and whose edge set
\* is the union of their edge sets.
C11_MergeIsUnion ==
    [][\A inputs \in MergeInputs :
          MergeStep(inputs) =>
              LET graphs == [k \in 1..Len(inputs) |-> GraphAt(inputs[k])]
                  result == Load(world'.heap, world'.graphs[3])
              IN  /\ (world'.call.threw # "none") <=> EdgeConflict(graphs)
                  /\ world'.call.threw = "none" =>
                        /\ Range(result.nodes) =
                               UNION {Range(graphs[k].nodes) : k \in 1..Len(graphs)}
                        /\ EdgesOf(result) =
                               UNION {EdgesOf(graphs[k]) : k \in 1..Len(graphs)}]_vars

\* Graph.merge has returned the graph of the two nodes and the two edges of
\* two graphs that hold one node and one edge each
C11_Witness ==
    /\ subject = "merge"
    /\ world.call = [op |-> "merge", inputs |-> <<1, 2>>, threw |-> "none"]
    /\ Len(GraphAt(1).nodes) = 1 /\ Len(GraphAt(1).edges) = 1
    /\ Len(GraphAt(2).nodes) = 1 /\ Len(GraphAt(2).edges) = 1
    /\ Len(GraphAt(3).nodes) = 2 /\ Len(GraphAt(3).edges) = 2

\* The positions of the graphs of the run whose fields, read through their
\* references, are changed by the step
ChangedGraphs ==
    {i \in 1..Len(world.graphs) : Load(world'.heap, world'.graphs[i]) # GraphAt(i)}

\* C12: Graph.merge and copy leave their inputs as they were (content and
\* modification counter) and return a graph that shares no mutable state
\* with them: the graphs of the run reach no object in common, and a mutator
\* called on one graph changes no other graph.
C12_MergeSharesNothing ==
    [][(subject = "merge" /\ world' # world) =>
          /\ \A i, j \in 1..Len(world'.graphs) :
                 i # j => Reach(world'.heap, world'.graphs[i])
                              \cap Reach(world'.heap, world'.graphs[j]) = {}
          /\ world'.call.op \in {"merge", "copy"} =>
                 \A i \in 1..2 : /\ world'.graphs[i] = world.graphs[i]
                                 /\ Load(world'.heap, world'.graphs[i]) = GraphAt(i)
          /\ world'.call.op \in {"addNode", "removeNode", "addEdge", "removeEdge"} =>
                 /\ world'.graphs = world.graphs
                 /\ Cardinality(ChangedGraphs) <= 1]_vars

\* An edge has been added to the graph that merge or copy returned, and no
\* input holds an edge
C12_Witness ==
    /\ subject = "merge"
    /\ Len(world.graphs) = 3
    /\ world.call = [op |-> "addEdge", threw |-> "none"]
    /\ Len(GraphAt(3).edges) = 1
    /\ Len(GraphAt(1).edges) = 0
    /\ Len(GraphAt(2).edges) = 0

-----------------------------------------------------------------------------
(* Properties of failing and repeated calls.                               *)

\* A step that is a call of one of the four mutators
MutatorStep ==
    /\ subject = "graph"
    /\ last'.op \in {"addNode", "removeNode", "addEdge", "removeEdge"}
    /\ <<graphVars, last>>' # <<graphVars, last>>

\* C13: whenever addNode, removeNode, addEdge or removeEdge throws, the node
\* set, the edge map, both adjacency indices and the modification counter
\* are the same as before the call.
C13_FailedMutationChangesNothing ==
    [][(MutatorStep /\ last'.threw # "none") => UNCHANGED graphVars]_vars

\* C14: addNode(a) for a node a that is in the graph returns normally and
\* leaves the node set, the edge map and the in-edge and out-edge lists (of
\* a, and of every node) unchanged.
C14_AddNodeIdempotent ==
    [][(MutatorStep /\ last'.op = "addNode" /\ hasNode(G, last'.arg))
          => last'.threw = "none" /\ ContentUnchanged]_vars

\* addNode has returned for a node that has a self-loop edge, added before
\* the call, still on its two lists
C14_Witness ==
    /\ subject = "graph"
    /\ last.op = "addNode"
    /\ last.threw = "none"
    /\ modificationCount = 3
    /\ nodes = <<last.arg>>
    /\ Len(edges) = 1
    /\ inEdges[last.arg] = <<edges[1].value>>
    /\ outEdges[last.arg] = <<edges[1].value>>

\* A sequence without the edges of an address
WithoutEdge(list, address) == SelectSeq(list, LAMBDA e : e.address # address)

\* C15: removeEdge(address) for an address that maps to no edge returns
\* normally and leaves the node set, the edge map and both adjacency indices
\* unchanged; for a stored edge it removes the edge from the edge map, from
\* the in-list of its dst and from the out-list of its src, and changes
\* nothing else.
C15_RemoveEdgeFrame ==
    [][(MutatorStep /\ last'.op = "removeEdge") =>
          /\ last'.threw = "none"
          /\ nodes' = nodes
          /\ IF ~hasEdge(G, last'.arg)
             THEN ContentUnchanged
             ELSE LET e == edge(G, last'.arg)
                  IN  /\ edges' = SelectSeq(edges, LAMBDA entry : entry.key # last'.arg)
                      /\ inEdges' = [n \in DOMAIN inEdges |->
                                        IF n = e.dst THEN WithoutEdge(inEdges[n], last'.arg)
                                        ELSE inEdges[n]]
                      /\ outEdges' = [n \in DOMAIN outEdges |->
                                         IF n = e.src THEN WithoutEdge(outEdges[n], last'.arg)
                                         ELSE outEdges[n]]]_vars

\* removeEdge has returned on a graph that still holds an edge at another
\* address, on the in-list of its dst and the out-list of its src
C15_Witness ==
    /\ subject = "graph"
    /\ last.op = "removeEdge"
    /\ last.threw = "none"
    /\ Len(edges) = 1
    /\ edges[1].key # last.arg
    /\ inEdges[edges[1].value.dst] = <<edges[1].value>>
    /\ outEdges[edges[1].value.src] = <<edges[1].value>>

-----------------------------------------------------------------------------
(* Properties of the modification counter.                                 *)

\* C16: the modification counter never decreases, an iterator's snapshot of
\* it is never above it, and no advance of an iterator fails with 'expected
\* modification count in the future'.
C16_CounterNeverDecreases ==
    /\ [][modificationCount' >= modificationCount]_vars
    /\ [](iter # NoIter =>
             /\ iter.since <= modificationCount
             /\ iter.out.type = "throw" =>
                    iter.out.error # "expected modification count in the future")

\* An iterator created before the last modification has been advanced and
\* has found the counter above its snapshot
C16_Witness ==
    /\ iter # NoIter
    /\ iter.since < modificationCount
    /\ iter.out = [type |-> "throw", error |-> "Concurrent modification detected"]

-----------------------------------------------------------------------------
(* Properties of calls with an address of the other module.                *)

\* C17: addNode, removeNode and hasNode called with an edge address,
\* removeEdge, hasEdge and edge called with a node address, and addEdge
\* called with an edge whose src or dst is an edge address or whose address
\* is a node address, all throw and leave the graph unchanged.
C17_OtherKindRejected ==
    [][LET call == last'
           wrong == \/ /\ call.op \in {"addNode", "removeNode", "hasNode"}
                       /\ call.arg.kind = "E"
                    \/ /\ call.op \in {"removeEdge", "hasEdge", "edge"}
                       /\ call.arg.kind = "N"
                    \/ /\ call.op = "addEdge"
                       /\ \/ call.arg.src.kind = "E"
                          \/ call.arg.dst.kind = "E"
                          \/ call.arg.address.kind = "N"
       IN  wrong =>
               /\ call.threw \in {"invalid address", "invalid edge.src",
                                  "invalid edge.dst", "invalid edge.address"}
               /\ UNCHANGED graphVars]_vars

\* addEdge has been called with a node address as the edge's address and two
\* nodes of the graph as its src and dst
C17_Witness ==
    /\ last.op = "addEdge"
    /\ last.arg.address.kind = "N"
    /\ hasNode(G, last.arg.src)
    /\ hasNode(G, last.arg.dst)
    /\ last.threw = "invalid edge.address"

-----------------------------------------------------------------------------
(* Properties of the compatibility envelope.                               *)

\* C18: fromJSON called with JSON whose envelope differs in type or version
\* from sourcecred/graph 0.4.0 throws the envelope's error, whatever the
\* data, and returns no graph; with that envelope it does not throw the
\* envelope's error; and the JSON that toJSON returns is under that envelope.
C18_EnvelopeChecked ==
    /\ last.op = "fromJSON" =>
          IF last.arg.compat = [type |-> "sourcecred/graph", version |-> "0.4.0"]
          THEN last.threw \notin {"incompatible type", "incompatible version"}
          ELSE /\ last.threw \in {"incompatible type", "incompatible version"}
               /\ last.value = Undefined
    /\ last.op = "toJSON" /\ last.threw = "none" =>
          last.value.compat = [type |-> "sourcecred/graph", version |-> "0.4.0"]

\* fromJSON has been called with the JSON of a graph with an edge, under
\* the envelope of another version
C18_Witness ==
    /\ last.op = "fromJSON"
    /\ last.arg.compat = [type |-> "sourcecred/graph", version |-> "0.3.0"]
    /\ last.arg.data.edges # <<>>
    /\ last.arg.data.nodes # <<>>
    /\ last.threw = "incompatible version"

-----------------------------------------------------------------------------
(* Properties of decompose.                                                *)

\* The place of an adjacency kind in the order inbound edge, outbound edge,
\* synthetic self-loop
KindPlace(x) ==
    IF x.connection.adjacency.type = "IN_EDGE" THEN 1
    ELSE IF x.connection.adjacency.type = "OUT_EDGE" THEN 2
    ELSE 3

\* x may stand before y: greater score, or equal score and earlier kind, or
\* equal score and kind and the smaller edge address
MayPrecede(x, y) ==
    \/ x.connectionScore > y.connectionScore
    \/ /\ x.connectionScore = y.connectionScore
       /\ KindPlace(x) < KindPlace(y)
    \/ /\ x.connectionScore = y.connectionScore
       /\ KindPlace(x) = KindPlace(y)
       /\ KindPlace(x) # 3
       /\ PartsLess(x.connection.adjacency.edge.address.parts,
                    y.connection.adjacency.edge.address.parts)

\* The array in another order
Permuted(array, p) == [i \in 1..Len(array) |-> array[p[i]]]

\* C19: in every list of scored connections that decompose returns each
\* element stands before the next by score descending, then by kind (inbound
\* edge, outbound edge, synthetic loop), then by edge address, and decompose
\* returns the same list for every order of the node's connections.
C19_ContributionsSorted ==
    (last.op = "decompose" /\ last.threw = "none") =>
        \A target \in DOMAIN last.value :
            LET list == last.value[target].scoredConnections
                given == last.arg.connections[target]
            IN  /\ \A i \in 1..(Len(list) - 1) : MayPrecede(list[i], list[i + 1])
                /\ \A p \in Permutations(1..Len(given)) :
                       decomposeTarget(last.arg.pr, target, Permuted(given, p)).value
                           = last.value[target]

\* Two inbound edges of equal connection score were given with the greater
\* address first and are returned with the smaller address first
C19_Witness ==
    /\ last.op = "decompose"
    /\ last.threw = "none"
    /\ FirstNode \in DOMAIN last.value
    /\ LET list == last.value[FirstNode].scoredConnections
           given == last.arg.connections[FirstNode]
       IN  /\ Len(list) = 2
           /\ list[1].connectionScore = list[2].connectionScore
           /\ list[1].connectionScore > 0
           /\ list[1].connection.adjacency.type = "IN_EDGE"
           /\ list[2].connection.adjacency.type = "IN_EDGE"
           /\ given[1] = list[2].connection
           /\ given[2] = list[1].connection

\* The scored connection that belongs to a connection of the target
ScoredAs(pr, target, connection) ==
    LET source == IF connection.adjacency.type = "IN_EDGE" THEN connection.adjacency.edge.src
                  ELSE IF connection.adjacency.type = "OUT_EDGE"
                  THEN connection.adjacency.edge.dst
                  ELSE target
    IN  [connection |-> connection, source |-> source,
         connectionScore |-> connection.weight * pr[source]]

\* A node of the connections map, or the source of one of its connections,
\* has no score
ScoreMissing(pr, connections) ==
    \E target \in DOMAIN connections :
        \/ target \notin DOMAIN pr
        \/ \E i \in 1..Len(connections[target]) :
              LET adjacency == connections[target][i].adjacency
              IN  \/ adjacency.type = "IN_EDGE" /\ adjacency.edge.src \notin DOMAIN pr
                  \/ adjacency.type = "OUT_EDGE" /\ adjacency.edge.dst \notin DOMAIN pr

\* C20: decompose throws exactly when a node of the connections map or the
\* source of a connection has no score; otherwise it returns one entry per
\* node of the map, with the node's score and with one scored connection per
\* connection given, whose connectionScore is the connection's weight times
\* the score of the adjacency's source node.
C20_DecomposeEntries ==
    last.op = "decompose" =>
        LET pr == last.arg.pr
            connections == last.arg.connections
        IN  IF ScoreMissing(pr, connections) THEN last.threw = "null"
            ELSE /\ last.threw = "none"
                 /\ DOMAIN last.value = DOMAIN connections
                 /\ \A target \in DOMAIN connections :
                       LET list == last.value[target].scoredConnections
                           given == connections[target]
                       IN  /\ last.value[target].score = pr[target]
                           /\ Len(list) = Len(given)
                           /\ \A i \in 1..Len(given) :
                                 Cardinality({k \in 1..Len(list) :
                                     list[k] = ScoredAs(pr, target, given[i])}) = 1

\* decompose has returned entries for two nodes, one with an inbound edge
\* from the other node, whose score differs from the node's own
C20_Witness ==
    /\ last.op = "decompose"
    /\ last.threw = "none"
    /\ DOMAIN last.value = {FirstNode, SecondNode}
    /\ last.arg.pr[FirstNode] # last.arg.pr[SecondNode]
    /\ \E k \in 1..Len(last.value[FirstNode].scoredConnections) :
          LET x == last.value[FirstNode].scoredConnections[k]
          IN  /\ x.connection.adjacency.type = "IN_EDGE"
              /\ x.source = SecondNode
              /\ x.connectionScore = x.connection.weight * last.arg.pr[SecondNode]
              /\ x.connectionScore > 0

-----------------------------------------------------------------------------
(* The stationary-distribution solver that pagerank awaits                  *)
(* (src/analysis/pagerank.js, findStationaryDistribution).  A chain is the *)
(* matrix of its transition weights, weight[i][j] / den from node i to     *)
(* node j; a distribution is the vector num[i] / den.  All fractions are   *)
(* exact.                                                                  *)

\* The chains the solver is called with: one node with its loop, two nodes
\* that exchange their mass evenly, two nodes of which the first keeps all
\* it gets, two nodes that swap, three nodes
SolverChains ==
    { [den |-> 1, weight |-> << <<1>> >>],
      [den |-> 2, weight |-> << <<1, 1>>, <<1, 1>> >>],
      [den |-> 2, weight |-> << <<2, 0>>, <<1, 1>> >>],
      [den |-> 1, weight |-> << <<0, 1>>, <<1, 0>> >>],
      [den |-> 4, weight |-> << <<2, 1, 1>>, <<0, 4, 0>>, <<1, 1, 2>> >>] }

\* uniformDistribution(n), and the distribution with all mass on the first
\* node
uniformDistribution(n) == [num |-> [i \in 1..n |-> 1], den |-> n]

indicatorDistribution(n) == [num |-> [i \in 1..n |-> IF i = 1 THEN 1 ELSE 0], den |-> 1]

\* The thresholds of convergence, as fractions
ConvergenceThresholds == {[num |-> 0, den |-> 1], [num |-> 1, den |-> 5], [num |-> 2, den |-> 1]}

MaxIterationsBound == 3

RECURSIVE dot(_, _, _, _)
dot(num, weight, j, i) ==
    IF i = 0 THEN 0 ELSE num[i] * weight[i][j] + dot(num, weight, j, i - 1)

\* One iteration with alpha = 0: pi' = pi . P
sparseMarkovChainAction(chain, pi) ==
    [num |-> [j \in 1..Len(pi.num) |-> dot(pi.num, chain.weight, j, Len(pi.num))],
     den |-> pi.den * chain.den]

Abs(x) == IF x < 0 THEN 0 - x ELSE x

\* The greatest difference between the entries of pi and of its image
computeDelta(chain, pi) ==
    LET image == sparseMarkovChainAction(chain, pi)
        diffs == {Abs(image.num[j] - pi.num[j] * chain.den) : j \in 1..Len(pi.num)}
    IN  [num |-> CHOOSE d \in diffs : \A other \in diffs : other <= d, den |-> image.den]

fractionLess(a, b) == a.num * b.den < b.num * a.den

\* The solver as it is called: INITIALIZED with pi0 and no iteration made
findStationaryDistribution(params, options) ==
    [op |-> "findStationaryDistribution", chain |-> params.chain, pi0 |-> params.pi0,
     maxIterations |-> options.maxIterations,
     convergenceThreshold |-> options.convergenceThreshold,
     phase |-> "INITIALIZED", nIterations |-> 0, pi |-> params.pi0, result |-> Undefined]

\* The pass of the loop that throws at the cap
iterateThrowingAtCap(s) ==
    IF s.nIterations >= s.maxIterations
    THEN [s EXCEPT !.phase = "MAX_ITERATIONS_REACHED", !.result = [threw |-> "not converged"]]
    ELSE [s EXCEPT !.nIterations = @ + 1, !.pi = sparseMarkovChainAction(s.chain, s.pi)]

\* One pass of the loop: at the cap the distribution reached is returned
\* with its delta and the report that it did not converge; otherwise one
\* iteration is made, and the solver returns when the delta of the new
\* distribution is below the threshold
iterate(s) ==
    IF s.nIterations >= s.maxIterations
    THEN [s EXCEPT !.phase = "MAX_ITERATIONS_REACHED",
                   !.result = [threw |-> "none", pi |-> s.pi, converged |-> FALSE,
                               convergenceDelta |-> computeDelta(s.chain, s.pi)]]
    ELSE LET pi == sparseMarkovChainAction(s.chain, s.pi)
             convergenceDelta == computeDelta(s.chain, pi)
         IN  IF fractionLess(convergenceDelta, s.convergenceThreshold)
             THEN [s EXCEPT !.phase = "CONVERGED", !.nIterations = @ + 1, !.pi = pi,
                            !.result = [threw |-> "none", pi |-> pi, converged |-> TRUE,
                                        convergenceDelta |-> convergenceDelta]]
             ELSE [s EXCEPT !.nIterations = @ + 1, !.pi = pi]

\* pagerank calls the solver with a chain, pi0, the cap and the threshold
FindStationaryDistributionCall ==
    /\ subject = "solver"
    /\ world.op = "new"
    /\ \E chain \in SolverChains : \E maxIterations \in 0..MaxIterationsBound :
       \E convergenceThreshold \in ConvergenceThresholds :
       \E pi0 \in {uniformDistribution(Len(chain.weight)),
                   indicatorDistribution(Len(chain.weight))} :
          world' = findStationaryDistribution(
                       [chain |-> chain, pi0 |-> pi0],
                       [maxIterations |-> maxIterations,
                        convergenceThreshold |-> convergenceThreshold])
    /\ UNCHANGED <<subject, graphVars, last, iter, payloadVars>>

\* The solver enters its loop
SolverStart ==
    /\ subject = "solver"
    /\ world.op = "findStationaryDistribution"
    /\ world.phase = "INITIALIZED"
    /\ world' = [world EXCEPT !.phase = "ITERATING"]
    /\ UNCHANGED <<subject, graphVars, last, iter, payloadVars>>

\* The solver makes one pass of its loop
SolverIterate ==
    /\ subject = "solver"
    /\ world.op = "findStationaryDistribution"
    /\ world.phase = "ITERATING"
    /\ world' = iterate(world)
    /\ UNCHANGED <<subject, graphVars, last, iter, payloadVars>>

NextSolver ==
    \/ FindStationaryDistributionCall
    \/ SolverStart
    \/ SolverIterate

InitSolver ==
    /\ subject = "solver"
    /\ nodes = EmptyGraph.nodes
    /\ edges = EmptyGraph.edges
    /\ inEdges = EmptyGraph.inEdges
    /\ outEdges = EmptyGraph.outEdges
    /\ modificationCount = EmptyGraph.modificationCount
    /\ last = [op |-> "new", arg |-> Undefined, threw |-> "none"]
    /\ iter = NoIter
    /\ payloadGraph = EmptyPayloadGraph
    /\ payloadMods = 0
    /\ world = [op |-> "new"]

\* The loop is awaited by pagerank and resumes after every yield, so a step
\* that can be taken is taken
SpecSolver == InitSolver /\ [][NextSolver]_vars /\ WF_vars(NextSolver)

-----------------------------------------------------------------------------
(* The distributions of grain (src/unnamed/part_004, applyDistributions).  *)
(* The ledger keeps the distributions applied to it; a distribution is     *)
(* known by the credTimestamp it was computed for.                         *)

NumCredIntervals == 3

MaxSimultaneousBound == 4

\* The time before every interval, which a ledger without distributions
\* gives as the time of its last distribution
NegativeInfinity == 0 - 1

\* view.intervals(): the intervals of the cred view, in order
credIntervals == [i \in 1..NumCredIntervals |-> [startTimeMs |-> i - 1, endTimeMs |-> i]]

Max(a, b) == IF a > b THEN a ELSE b

\* Array.prototype.slice(start, end): a negative index counts from the end
slice(array, start, end) ==
    LET len == Len(array)
        from == IF start < 0 THEN Max(len + start, 0) ELSE Min(start, len)
        to == IF end < 0 THEN Max(len + end, 0) ELSE Min(end, len)
    IN  SubSeq(array, from + 1, to)

\* _chooseDistributionIntervals: of the intervals that are complete and later
\* than the last distribution, the slice from their number less
\* maxSimultaneousDistributions to their number
chooseDistributionIntervals(intervals, lastTimestamp, currentTimestamp, maxSimultaneous) ==
    LET completeIntervals ==
            SelectSeq(intervals, LAMBDA x : x.endTimeMs <= currentTimestamp)
        undistributedIntervals ==
            SelectSeq(completeIntervals, LAMBDA x : x.endTimeMs > lastTimestamp)
    IN  slice(undistributedIntervals,
              Len(undistributedIntervals) - maxSimultaneous,
              Len(undistributedIntervals))

\* ledger.lastDistributionTimestamp()
lastDistributionTimestamp(ledger) ==
    IF ledger = <<>> THEN NegativeInfinity ELSE ledger[Len(ledger)].credTimestamp

\* computeCredAccounts(ledger, view): the accounts as the ledger has them,
\* known by the distributions that were paid into them
computeCredAccounts(ledger) == [paid |-> [k \in 1..Len(ledger) |-> ledger[k].credTimestamp]]

\* The pass that computes every distribution from the accounts of the ledger
\* as it was when applyDistributions was called
RECURSIVE distributeEachFromFirstAccounts(_, _, _)
distributeEachFromFirstAccounts(ledger, intervals, returned) ==
    IF intervals = <<>> THEN [ledger |-> ledger, returned |-> returned]
    ELSE LET accountsData ==
                 computeCredAccounts(SubSeq(ledger, 1, Len(ledger) - Len(returned)))
             distribution ==
                 [credTimestamp |-> Head(intervals).endTimeMs, accounts |-> accountsData]
         IN  distributeEachFromFirstAccounts(Append(ledger, distribution), Tail(intervals),
                                             Append(returned, distribution))

\* The map over the intervals chosen: for each in turn the accounts are
\* computed from the ledger, the distribution is computed from them for the
\* end of the interval, and ledger.distributeGrain applies it
RECURSIVE distributeEach(_, _, _)
distributeEach(ledger, intervals, returned) ==
    IF intervals = <<>> THEN [ledger |-> ledger, returned |-> returned]
    ELSE LET accountsData == computeCredAccounts(ledger)
             distribution ==
                 [credTimestamp |-> Head(intervals).endTimeMs, accounts |-> accountsData]
         IN  distributeEach(Append(ledger, distribution), Tail(intervals),
                            Append(returned, distribution))

\* applyDistributions: a distribution is computed for the end of every
\* interval chosen and applied to the ledger; the distributions are returned
applyDistributions(policy, intervals, ledger, currentTimestamp) ==
    distributeEach(ledger,
                   chooseDistributionIntervals(intervals, lastDistributionTimestamp(ledger),
                                               currentTimestamp,
                                               policy.maxSimultaneousDistributions),
                   <<>>)

\* Time passes
TickCall ==
    /\ subject = "grain"
    /\ world.currentTimestamp < NumCredIntervals + 1
    /\ world' = [world EXCEPT !.currentTimestamp = @ + 1, !.call = [op |-> "tick"]]
    /\ UNCHANGED <<subject, graphVars, last, iter, payloadVars>>

ApplyDistributionsCall ==
    /\ subject = "grain"
    /\ \E maxSimultaneousDistributions \in 0..MaxSimultaneousBound :
       \E r \in {applyDistributions(
                     [maxSimultaneousDistributions |-> maxSimultaneousDistributions],
                     credIntervals, world.ledger, world.currentTimestamp)} :
          world' = [world EXCEPT
                       !.ledger = r.ledger,
                       !.call = [op |-> "applyDistributions",
                                 maxSimultaneousDistributions |-> maxSimultaneousDistributions,
                                 returned |-> r.returned]]
    /\ UNCHANGED <<subject, graphVars, last, iter, payloadVars>>

(* The allocation of grain (createGrainAllocation, as its tests in         *)
(* src/unnamed/part_004 call it).  Grain and cred are whole numbers.        *)

GrainAddrs == <<"foo", "bar">>

\* The sum of what the map gives the addresses from the i-th on
RECURSIVE sumOver(_, _)
sumOver(map, i) ==
    IF i > Len(GrainAddrs) THEN 0
    ELSE (IF GrainAddrs[i] \in DOMAIN map THEN map[GrainAddrs[i]] ELSE 0) + sumOver(map, i + 1)

\* The receipts that give every address with a share its part of the budget
receiptsByShare(budget, share) ==
    LET total == sumOver(share, 1)
        paid == SelectSeq(GrainAddrs, LAMBDA a : a \in DOMAIN share /\ share[a] > 0)
    IN  IF total = 0 THEN <<>>
        ELSE [i \in 1..Len(paid) |->
                 [address |-> paid[i], amount |-> (budget * share[paid[i]]) \div total]]

\* IMMEDIATE: the budget is split by the cred of the last interval
computeImmediateReceipts(budget, credHistory) ==
    IF budget = 0 \/ credHistory = <<>> THEN <<>>
    ELSE receiptsByShare(budget, credHistory[Len(credHistory)].cred)

RECURSIVE lifetimeCred(_, _)
lifetimeCred(credHistory, address) ==
    IF credHistory = <<>> THEN 0
    ELSE (IF address \in DOMAIN Head(credHistory).cred THEN Head(credHistory).cred[address] ELSE 0)
             + lifetimeCred(Tail(credHistory), address)

\* BALANCED: the budget is split by how far the lifetime earnings of every
\* address are below its share, by lifetime cred, of all grain paid
computeBalancedReceipts(budget, credHistory, lifetimeEarnings) ==
    IF budget = 0 \/ credHistory = <<>> THEN <<>>
    ELSE LET addrs == {GrainAddrs[i] : i \in 1..Len(GrainAddrs)}
             cred == [a \in addrs |-> lifetimeCred(credHistory, a)]
             totalCred == sumOver(cred, 1)
             targetTotal == sumOver(lifetimeEarnings, 1) + budget
             earned(a) == IF a \in DOMAIN lifetimeEarnings THEN lifetimeEarnings[a] ELSE 0
             underpayment ==
                 [a \in addrs |-> Max(0, (targetTotal * cred[a]) \div totalCred - earned(a))]
         IN  IF totalCred = 0 THEN <<>> ELSE receiptsByShare(budget, underpayment)

\* The allocation that takes the shortcut of the empty allocation before it
\* looks at the version of the strategy
createGrainAllocationShortcutFirst(strategy, budget, credHistory, lifetimeEarnings) ==
    IF budget = 0 \/ credHistory = <<>>
    THEN [threw |-> "none",
          value |-> [version |-> 1, strategy |-> strategy, budget |-> budget, receipts |-> <<>>]]
    ELSE IF strategy.version # 1
    THEN [threw |-> "Unsupported " \o strategy.type \o " version"]
    ELSE [threw |-> "none",
          value |-> [version |-> 1, strategy |-> strategy, budget |-> budget,
                     receipts |-> IF strategy.type = "IMMEDIATE"
                                  THEN computeImmediateReceipts(budget, credHistory)
                                  ELSE computeBalancedReceipts(budget, credHistory,
                                                               lifetimeEarnings)]]

\* createGrainAllocation: the version of the strategy is checked for its
\* type, then the receipts are computed
createGrainAllocation(strategy, budget, credHistory, lifetimeEarnings) ==
    IF strategy.version # 1
    THEN [threw |-> "Unsupported " \o strategy.type \o " version"]
    ELSE [threw |-> "none",
          value |-> [version |-> 1, strategy |-> strategy, budget |-> budget,
                     receipts |-> IF strategy.type = "IMMEDIATE"
                                  THEN computeImmediateReceipts(budget, credHistory)
                                  ELSE computeBalancedReceipts(budget, credHistory,
                                                               lifetimeEarnings)]]

\* The strategies, budgets, cred histories and lifetime earnings of the tests
Strategies == [type : {"IMMEDIATE", "BALANCED"}, version : {1, 2}]

Budgets == {0, 10, 14}

CredHistories ==
    LET unevenInterval == [intervalEndMs |-> 10, cred |-> [foo |-> 9, bar |-> 1]]
        evenInterval == [intervalEndMs |-> 20, cred |-> [foo |-> 1, bar |-> 1]]
        singlePersonInterval == [intervalEndMs |-> 30, cred |-> [bar |-> 2]]
    IN  { <<>>,
          <<[intervalEndMs |-> 500, cred |-> [foo |-> 0, bar |-> 0]]>>,
          <<evenInterval>>, <<unevenInterval>>, <<singlePersonInterval>>,
          <<unevenInterval, evenInterval, singlePersonInterval>> }

LifetimeEarnings == {<<>>, [foo |-> 0, bar |-> 99], [foo |-> 5, bar |-> 2]}

CreateGrainAllocationCall ==
    /\ subject = "grain"
    /\ world.call.op # "createGrainAllocation"
    /\ \E strategy \in Strategies : \E budget \in Budgets :
       \E credHistory \in CredHistories : \E lifetimeEarnings \in LifetimeEarnings :
       \E r \in {createGrainAllocation(strategy, budget, credHistory, lifetimeEarnings)} :
          world' = [world EXCEPT
                       !.call = [op |-> "createGrainAllocation", strategy |-> strategy,
                                 budget |-> budget, credHistory |-> credHistory,
                                 lifetimeEarnings |-> lifetimeEarnings] @@ r]
    /\ UNCHANGED <<subject, graphVars, last, iter, payloadVars>>

NextGrain ==
    \/ TickCall
    \/ ApplyDistributionsCall
    \/ CreateGrainAllocationCall

InitGrain ==
    /\ subject = "grain"
    /\ nodes = EmptyGraph.nodes
    /\ edges = EmptyGraph.edges
    /\ inEdges = EmptyGraph.inEdges
    /\ outEdges = EmptyGraph.outEdges
    /\ modificationCount = EmptyGraph.modificationCount
    /\ last = [op |-> "new", arg |-> Undefined, threw |-> "none"]
    /\ iter = NoIter
    /\ payloadGraph = EmptyPayloadGraph
    /\ payloadMods = 0
    /\ world = [ledger |-> <<>>, currentTimestamp |-> 0, call |-> [op |-> "new"]]

SpecGrain == InitGrain /\ [][NextGrain]_vars

-----------------------------------------------------------------------------
(* The cred data and its compressions (src/unnamed/part_008).  Cred and    *)
(* flows are whole numbers.                                                *)

NumCredNodes == 2

\* A value that may be null is null or holds what it is: the arrays over
\* time and their entries are such values
Null == <<>>

NotNull(v) == <<v>>

\* The scores of one interval that computeCredData is given: for every node
\* its cred, seed flow and synthetic loop flow, for the edge its flows
NodeScoreInputs ==
    {[cred |-> 1, seedFlow |-> 0, syntheticLoopFlow |-> 1],
     [cred |-> 3, seedFlow |-> 2, syntheticLoopFlow |-> 1],
     [cred |-> 3, seedFlow |-> 0, syntheticLoopFlow |-> 3]}

TimelineCredScores ==
    {<<[interval |-> [startTimeMs |-> 0, endTimeMs |-> 1], node |-> node,
        edge |-> <<[forwardFlow |-> f, backwardFlow |-> b]>>]>> :
        node \in [1..NumCredNodes -> NodeScoreInputs], f \in {0, 2}, b \in {0, 2}}

\* The sum over the intervals up to the i-th of the field of the n-th node
\* or edge
RECURSIVE sumScores(_, _, _, _, _)
sumScores(scores, kind, n, field, i) ==
    IF i = 0 THEN 0
    ELSE scores[i][kind][n][field] + sumScores(scores, kind, n, field, i - 1)

\* computeCredData: the summaries are the sums over the intervals, the
\* data over time has one entry for every interval
computeCredData(scores) ==
    IF Len(scores) = 0
    THEN [nodeSummaries |-> <<>>, nodeOverTime |-> <<>>, edgeSummaries |-> <<>>,
          edgeOverTime |-> <<>>, intervalEnds |-> <<>>]
    ELSE LET numIntervals == Len(scores)
             over(kind, n, field) == [k \in 1..numIntervals |-> scores[k][kind][n][field]]
             total(kind, n, field) == sumScores(scores, kind, n, field, numIntervals)
         IN  [nodeSummaries |->
                  [n \in 1..Len(scores[1].node) |->
                      [cred |-> total("node", n, "cred"),
                       seedFlow |-> total("node", n, "seedFlow"),
                       syntheticLoopFlow |-> total("node", n, "syntheticLoopFlow")]],
              nodeOverTime |->
                  [n \in 1..Len(scores[1].node) |->
                      NotNull([cred |-> over("node", n, "cred"),
                               seedFlow |-> NotNull(over("node", n, "seedFlow")),
                               syntheticLoopFlow |->
                                   NotNull(over("node", n, "syntheticLoopFlow"))])],
              edgeSummaries |->
                  [e \in 1..Len(scores[1].edge) |->
                      [forwardFlow |-> total("edge", e, "forwardFlow"),
                       backwardFlow |-> total("edge", e, "backwardFlow")]],
              edgeOverTime |->
                  [e \in 1..Len(scores[1].edge) |->
                      NotNull([forwardFlow |-> NotNull(over("edge", e, "forwardFlow")),
                               backwardFlow |-> NotNull(over("edge", e, "backwardFlow"))])],
              intervalEnds |-> [k \in 1..numIntervals |-> scores[k].interval.endTimeMs]]

\* compressByThreshold: the data over time of a node below the threshold is
\* dropped, and of the others the flows below it; of an edge the flows
\* below the threshold, and the edge with both; what is null stays null
compressByThreshold(x, threshold) ==
    [threw |-> "none",
     value |->
        [x EXCEPT
            !.nodeOverTime =
                [i \in 1..Len(x.nodeOverTime) |->
                    LET d == x.nodeOverTime[i]
                        s == x.nodeSummaries[i]
                    IN  IF d = Null THEN Null
                        ELSE IF s.cred < threshold THEN Null
                        ELSE NotNull(
                                 [cred |-> d[1].cred,
                                  seedFlow |->
                                      IF s.seedFlow < threshold THEN Null ELSE d[1].seedFlow,
                                  syntheticLoopFlow |->
                                      IF s.syntheticLoopFlow < threshold THEN Null
                                      ELSE d[1].syntheticLoopFlow])],
            !.edgeOverTime =
                [i \in 1..Len(x.edgeOverTime) |->
                    LET d == x.edgeOverTime[i]
                        checkF == x.edgeSummaries[i].forwardFlow >= threshold
                        checkB == x.edgeSummaries[i].backwardFlow >= threshold
                    IN  IF d = Null THEN Null
                        ELSE IF checkF \/ checkB
                        THEN NotNull([forwardFlow |-> IF checkF THEN d[1].forwardFlow ELSE Null,
                                      backwardFlow |->
                                          IF checkB THEN d[1].backwardFlow ELSE Null])
                        ELSE Null]]]

\* The compression that reads the fields of an entry that is null
compressDownNotCheckingNull(x, inclusionIndices) ==
    IF \E i \in 1..Len(x.nodeOverTime) : x.nodeOverTime[i] = Null /\ (i - 1) \in inclusionIndices
    THEN [threw |-> "TypeError"]
    ELSE [threw |-> "none",
          value |->
             [x EXCEPT
                 !.nodeOverTime =
                     [i \in 1..Len(x.nodeOverTime) |->
                         IF (i - 1) \in inclusionIndices
                         THEN NotNull([cred |-> x.nodeOverTime[i][1].cred, seedFlow |-> Null,
                                       syntheticLoopFlow |-> Null])
                         ELSE Null],
                 !.edgeOverTime = [i \in 1..Len(x.edgeOverTime) |-> Null]]]

\* compressDownToMatchingIndices: only the cred over time of the nodes at
\* the indices, which count from 0, is kept; what is null stays null
compressDownToMatchingIndices(x, inclusionIndices) ==
    [threw |-> "none",
     value |->
        [x EXCEPT
            !.nodeOverTime =
                [i \in 1..Len(x.nodeOverTime) |->
                    LET d == x.nodeOverTime[i]
                    IN  IF d = Null THEN Null
                        ELSE IF (i - 1) \in inclusionIndices
                        THEN NotNull([cred |-> d[1].cred, seedFlow |-> Null,
                                      syntheticLoopFlow |-> Null])
                        ELSE Null],
            !.edgeOverTime = [i \in 1..Len(x.edgeOverTime) |-> Null]]]

Thresholds == {1, 2, 3}

InclusionIndices == SUBSET (0..(NumCredNodes - 1))

\* A compression is applied to the cred data, which is replaced by the
\* result when the call returns
CompressCall(op, arg, r) ==
    /\ world' = [credData |-> IF r.threw = "none" THEN r.value ELSE world.credData,
                 call |-> [op |-> op, arg |-> arg, threw |-> r.threw, on |-> world.credData]]
    /\ UNCHANGED <<subject, graphVars, last, iter, payloadVars>>

CompressByThresholdCall ==
    /\ subject = "cred"
    /\ \E threshold \in Thresholds :
          CompressCall("compressByThreshold", threshold,
                       compressByThreshold(world.credData, threshold))

CompressDownToMatchingIndicesCall ==
    /\ subject = "cred"
    /\ \E inclusionIndices \in InclusionIndices :
          CompressCall("compressDownToMatchingIndices", inclusionIndices,
                       compressDownToMatchingIndices(world.credData, inclusionIndices))

NextCred ==
    \/ CompressByThresholdCall
    \/ CompressDownToMatchingIndicesCall

InitCred ==
    /\ subject = "cred"
    /\ nodes = EmptyGraph.nodes
    /\ edges = EmptyGraph.edges
    /\ inEdges = EmptyGraph.inEdges
    /\ outEdges = EmptyGraph.outEdges
    /\ modificationCount = EmptyGraph.modificationCount
    /\ last = [op |-> "new", arg |-> Undefined, threw |-> "none"]
    /\ iter = NoIter
    /\ payloadGraph = EmptyPayloadGraph
    /\ payloadMods = 0
    /\ world \in {[credData |-> computeCredData(scores), call |-> [op |-> "computeCredData"]] :
                     scores \in TimelineCredScores}

SpecCred == InitCred /\ [][NextCred]_vars

-----------------------------------------------------------------------------
(* Properties of the queries on a graph that is not mutated meanwhile.     *)

\* The array has no element twice
NoRepeat(array) == \A i, j \in 1..Len(array) : array[i] = array[j] => i = j

\* The pairs a neighbors query is to give: one per edge into the node for
\* IN and ANY, one per edge out of it for OUT and ANY
NeighborPairs(o) ==
    {[edge |-> e, node |-> e.src] :
        e \in {x \in StoredEdges : /\ o.direction \in {"IN", "ANY"}
                                   /\ x.dst = o.node
                                   /\ HasPrefix(x.src, o.nodePrefix)
                                   /\ HasPrefix(x.address, o.edgePrefix)}}
    \cup
    {[edge |-> e, node |-> e.dst] :
        e \in {x \in StoredEdges : /\ o.direction \in {"OUT", "ANY"}
                                   /\ x.src = o.node
                                   /\ HasPrefix(x.dst, o.nodePrefix)
                                   /\ HasPrefix(x.address, o.edgePrefix)}}

\* C29: for a node of the graph, neighbors iterated to its end gives, each
\* once, exactly the pairs (e, e.src) of the edges into the node (IN, ANY)
\* and the pairs (e, e.dst) of the edges out of it (OUT, ANY) that pass
\* nodePrefix and edgePrefix, and every edge it gives is among those that
\* edges() gives.
C29_NeighborsExact ==
    subject = "graph" =>
        \A o \in NeighborsOptions :
            hasNode(G, o.node) =>
                LET all == arrayFrom(G, neighborsCall(G, o))
                    listed == arrayFrom(G, edgesCall(G, AllEdges))
                IN  /\ all.threw = "none"
                    /\ NoRepeat(all.values)
                    /\ Range(all.values) = NeighborPairs(o)
                    /\ listed.threw = "none"
                    /\ \A i \in 1..Len(all.values) :
                          all.values[i].edge \in Range(listed.values)

\* A node with an edge into it and another edge out of it: IN gives the
\* first only, OUT the second only, ANY both
C29_Witness ==
    /\ subject = "graph"
    /\ \E n \in NodeAddrs : \E e1, e2 \in StoredEdges :
          /\ e1.dst = n /\ e1.src # n
          /\ e2.src = n /\ e2.dst # n
          /\ LET query(d) == arrayFrom(G, neighborsCall(G,
                                 [node |-> n, direction |-> d,
                                  nodePrefix |-> NodeAddress(<<>>),
                                  edgePrefix |-> EdgeAddress(<<>>)])).values
             IN  /\ query("IN") = <<[edge |-> e1, node |-> e1.src]>>
                 /\ query("OUT") = <<[edge |-> e2, node |-> e2.dst]>>
                 /\ Len(query("ANY")) = 2

\* C30: on a graph that is not mutated meanwhile, nodes(options) iterated to
\* its end gives each node with the prefix once and nothing else, edges(options)
\* each edge whose address, src and dst have the three prefixes once and
\* nothing else, and neither throws.
C30_NodesAndEdgesExact ==
    subject = "graph" =>
        /\ \A o \in NodesOptions :
              LET all == arrayFrom(G, nodesCall(G, o))
              IN  /\ all.threw = "none"
                  /\ NoRepeat(all.values)
                  /\ Range(all.values) = {n \in Range(nodes) : HasPrefix(n, o.prefix)}
        /\ \A o \in EdgesOptions :
              LET all == arrayFrom(G, edgesCall(G, o))
              IN  /\ all.threw = "none"
                  /\ NoRepeat(all.values)
                  /\ Range(all.values) =
                         {e \in StoredEdges : /\ HasPrefix(e.address, o.addressPrefix)
                                              /\ HasPrefix(e.src, o.srcPrefix)
                                              /\ HasPrefix(e.dst, o.dstPrefix)}

\* A graph that holds two edges of which a filter passes one only: edges
\* with that filter gives that one
C30_Witness ==
    /\ subject = "graph"
    /\ \E o \in EdgesOptions : \E e1, e2 \in StoredEdges :
          /\ HasPrefix(e1.address, o.addressPrefix)
          /\ HasPrefix(e1.src, o.srcPrefix)
          /\ HasPrefix(e1.dst, o.dstPrefix)
          /\ \/ ~HasPrefix(e2.src, o.srcPrefix)
             \/ ~HasPrefix(e2.dst, o.dstPrefix)
          /\ arrayFrom(G, edgesCall(G, o)).values = <<e1>>

-----------------------------------------------------------------------------
(* Properties of the merges of the payload-carrying graph.                 *)

\* The two maps hold different objects at an address
Disagree(m1, m2) == \E a \in DOMAIN m1 \cap DOMAIN m2 : m1[a] # m2[a]

\* The union of two maps that agree where both hold an object
MapUnion(m1, m2) ==
    [a \in DOMAIN m1 \cup DOMAIN m2 |-> IF a \in DOMAIN m1 THEN m1[a] ELSE m2[a]]

\* C24: mergeConservative(g1, g2) throws when g1 and g2 hold different nodes
\* at one address or different edges at one address, and otherwise returns a
\* graph whose nodes and whose edges are the union of theirs.
C24_MergeConservative ==
    (subject = "pair" /\ world.call.op = "mergeConservative") =>
        LET g1 == world.graphs[world.call.inputs[1]]
            g2 == world.graphs[world.call.inputs[2]]
        IN  IF Disagree(g1.nodes, g2.nodes) \/ Disagree(g1.edges, g2.edges)
            THEN world.call.threw # "none"
            ELSE /\ world.call.threw = "none"
                 /\ world.call.result.nodes = MapUnion(g1.nodes, g2.nodes)
                 /\ world.call.result.edges = MapUnion(g1.edges, g2.edges)

\* mergeConservative has thrown for two graphs that hold edges of different
\* payload at one address
C24_Witness ==
    /\ subject = "pair"
    /\ world.call.op = "mergeConservative"
    /\ world.call.threw = "distinct edges"
    /\ Disagree(world.graphs[world.call.inputs[1]].edges,
                world.graphs[world.call.inputs[2]].edges)

\* What merge is to hold at the addresses of two maps: the resolver's output
\* where both hold an object, the one object elsewhere
Resolved(resolver, kinds, m1, m2) ==
    [a \in DOMAIN m1 \cup DOMAIN m2 |->
        IF a \in DOMAIN m1 /\ a \in DOMAIN m2 THEN resolve(resolver, kinds, m1[a], m2[a]).value
        ELSE IF a \in DOMAIN m1 THEN m1[a]
        ELSE m2[a]]

\* C25: merge(g1, g2, nodeResolver, edgeResolver), with resolvers that
\* return an object at the address of their arguments, returns a graph that
\* holds at every address of both inputs the resolver's output for the two
\* objects and at every address of one input only that input's object, and
\* the step leaves g1 and g2 as they were.
C25_MergeResolves ==
    [][(subject = "pair" /\ world'.call.op = "merge") =>
          LET call == world'.call
              g1 == world.graphs[call.inputs[1]]
              g2 == world.graphs[call.inputs[2]]
          IN  /\ call.threw = "none"
              /\ call.result.nodes = Resolved(call.inputs[3], "nodes", g1.nodes, g2.nodes)
              /\ call.result.edges = Resolved(call.inputs[4], "edges", g1.edges, g2.edges)
              /\ world'.graphs = world.graphs]_vars

\* merge has been called with the summing resolver on two graphs that hold
\* nodes of different payload at one address, and the result holds the sum
C25_Witness ==
    /\ subject = "pair"
    /\ world.call.op = "merge"
    /\ world.call.inputs[3] = "sum"
    /\ \E a \in DOMAIN world.graphs[1].nodes \cap DOMAIN world.graphs[2].nodes :
          /\ world.call.inputs[1] # world.call.inputs[2]
          /\ world.graphs[1].nodes[a].payload # world.graphs[2].nodes[a].payload
          /\ world.call.result.nodes[a].payload =
                 world.graphs[1].nodes[a].payload + world.graphs[2].nodes[a].payload

\* C26: mergeManyConservative(graphs) throws exactly when the reduction of
\* the list by mergeConservative from an empty graph throws, and otherwise
\* the two return graphs with the same nodes and the same edges.
C26_MergeManyIsReduce ==
    (subject = "pair" /\ world.call.op = "mergeManyConservative") =>
        LET graphs == [k \in 1..Len(world.call.inputs) |-> world.graphs[world.call.inputs[k]]]
            reduced == reduceMergeConservative(Returned(EmptyPayloadGraph), graphs)
        IN  /\ (world.call.threw = "none") = (reduced.threw = "none")
            /\ world.call.threw = "none" =>
                  /\ world.call.result.nodes = reduced.graph.nodes
                  /\ world.call.result.edges = reduced.graph.edges

\* mergeManyConservative has returned for a list of three graphs, two of
\* them different, with the nodes of both
C26_Witness ==
    /\ subject = "pair"
    /\ world.call.op = "mergeManyConservative"
    /\ Len(world.call.inputs) = 3
    /\ world.graphs[1].nodes # world.graphs[2].nodes
    /\ {world.call.inputs[k] : k \in 1..3} = {1, 2}
    /\ world.call.threw = "none"
    /\ Cardinality(DOMAIN world.call.result.nodes) = 2

-----------------------------------------------------------------------------
(* Properties of the Markov chain of a graph.                              *)

\* The places (target, index) of the connections that have the node as source
PlacesFrom(connections, source) ==
    {<<target, i>> \in UNION {{<<t, k>> : k \in 1..Len(connections[t])} :
                                 t \in DOMAIN connections} :
        adjacencySource(target, connections[target][i].adjacency) = source}

\* The sum of the numerators of the weights at the places
RECURSIVE SumNum(_, _)
SumNum(connections, places) ==
    IF places = {} THEN 0
    ELSE LET place == CHOOSE x \in places : TRUE
         IN  connections[place[1]][place[2]].weight.num
                 + SumNum(connections, places \ {place})

\* C22: in the connections built from a graph every node has exactly one
\* SYNTHETIC_LOOP adjacency, and for every node the weights of the
\* connections that have it as source are fractions of one positive
\* denominator whose numerators sum to it: they sum to 1.
C22_RowStochastic ==
    subject = "graph" =>
        \A evaluator \in EdgeEvaluators : \A selfLoopWeight \in SelfLoopWeights :
            LET connections == createConnections(G, evaluator, selfLoopWeight)
            IN  /\ DOMAIN connections = Range(nodes)
                /\ \A node \in Range(nodes) :
                      /\ Cardinality({i \in 1..Len(connections[node]) :
                             connections[node][i].adjacency.type = "SYNTHETIC_LOOP"}) = 1
                      /\ LET places == PlacesFrom(connections, node)
                         IN  \E den \in 1..(SumNum(connections, places)) :
                                /\ \A place \in places :
                                      connections[place[1]][place[2]].weight.den = den
                                /\ SumNum(connections, places) = den

\* A graph with a node without edges and a node with an edge, whose
\* connections are built
C22_Witness ==
    /\ subject = "graph"
    /\ \E n \in Range(nodes) : Incident(n) = {}
    /\ StoredEdges # {}
    /\ \E node \in DOMAIN createConnections(G, "byEdge", 3) :
           Len(createConnections(G, "byEdge", 3)[node]) = 3

-----------------------------------------------------------------------------
(* Properties of the stationary-distribution solver.                       *)

Solving == subject = "solver" /\ world.op = "findStationaryDistribution"

SolverDone == Solving /\ world.phase \in {"CONVERGED", "MAX_ITERATIONS_REACHED"}

\* The distribution after n iterations from pi
RECURSIVE Iterated(_, _, _)
Iterated(chain, pi, n) ==
    IF n = 0 THEN pi ELSE sparseMarkovChainAction(chain, Iterated(chain, pi, n - 1))

RECURSIVE SumTo(_, _)
SumTo(num, i) == IF i = 0 THEN 0 ELSE num[i] + SumTo(num, i - 1)

\* What holds in every state of the solver
SolverSafe ==
    Solving =>
        /\ world.nIterations <= world.maxIterations
        /\ world.phase \in {"INITIALIZED", "ITERATING", "CONVERGED", "MAX_ITERATIONS_REACHED"}
        /\ world.phase = "INITIALIZED" => world.nIterations = 0
        /\ (world.result # Undefined) = SolverDone
        /\ SolverDone => world.result.threw = "none"
        /\ world.phase = "MAX_ITERATIONS_REACHED" =>
              /\ world.nIterations = world.maxIterations
              /\ world.result.converged = FALSE
              /\ world.result.pi = Iterated(world.chain, world.pi0, world.maxIterations)
              /\ SumTo(world.result.pi.num, Len(world.result.pi.num)) = world.result.pi.den
        /\ world.phase = "CONVERGED" => world.result.converged = TRUE

\* The steps of the solver
SolverSteps ==
    Solving =>
        /\ world.phase = "INITIALIZED" => world'.phase \in {"INITIALIZED", "ITERATING"}
        /\ world.phase = "ITERATING" =>
              world'.phase \in {"ITERATING", "CONVERGED", "MAX_ITERATIONS_REACHED"}
        /\ SolverDone => world' = world

\* C21: the solver makes at most maxIterations iterations and always ends;
\* it goes from INITIALIZED to ITERATING and from there to one of CONVERGED
\* and MAX_ITERATIONS_REACHED, where it stays; at the cap it returns, without
\* throwing, the distribution reached after maxIterations iterations with
\* the report that it did not converge.
C21_SolverTerminates ==
    /\ []SolverSafe
    /\ [][SolverSteps]_vars
    /\ (Solving ~> SolverDone)

\* The solver has made all the iterations allowed, more than one, and has
\* returned at the cap a distribution other than the one it started from
C21_Witness ==
    /\ Solving
    /\ world.phase = "MAX_ITERATIONS_REACHED"
    /\ world.nIterations > 1
    /\ world.result.threw = "none"
    /\ world.result.pi # world.pi0

-----------------------------------------------------------------------------
(* Properties of the distributions of grain.                               *)

\* The ends of the intervals that are complete at the time and later than
\* the last distribution of the ledger
Due(ledger, currentTimestamp) ==
    {credIntervals[i].endTimeMs : i \in
        {k \in 1..Len(credIntervals) :
            /\ credIntervals[k].endTimeMs <= currentTimestamp
            /\ credIntervals[k].endTimeMs > lastDistributionTimestamp(ledger)}}

\* C23: applyDistributions applies one distribution for every interval that
\* is complete and not yet distributed, or, when
\* maxSimultaneousDistributions is lower than their number, that number of
\* distributions for the most recent of them; with no such interval it
\* applies none.
C23_OneDistributionPerDueInterval ==
    [][(subject = "grain" /\ world'.call.op = "applyDistributions") =>
          LET due == Due(world.ledger, world.currentTimestamp)
              max == world'.call.maxSimultaneousDistributions
              applied == {world'.call.returned[k].credTimestamp :
                             k \in 1..Len(world'.call.returned)}
          IN  /\ Len(world'.call.returned) = Min(Cardinality(due), max)
              /\ Cardinality(applied) = Len(world'.call.returned)
              /\ applied \subseteq due
              /\ \A t \in applied : \A u \in due \ applied : u < t
              /\ world'.ledger = world.ledger \o world'.call.returned]_vars

-----------------------------------------------------------------------------
(* Properties of the compressions of the cred data.                        *)

\* The compression returns, a second application to its result returns the
\* same result, and the summaries and the ends of the intervals are kept
Idempotent(x, once, twice) ==
    /\ once.threw = "none"
    /\ twice.threw = "none"
    /\ twice.value = once.value
    /\ once.value.nodeSummaries = x.nodeSummaries
    /\ once.value.edgeSummaries = x.edgeSummaries
    /\ once.value.intervalEnds = x.intervalEnds

\* C27: on cred data, compressed already or not, compressByThreshold and
\* compressDownToMatchingIndices return, applied twice they give what they
\* give applied once, and they keep nodeSummaries, edgeSummaries and
\* intervalEnds.
C27_CompressionIdempotent ==
    subject = "cred" =>
        LET x == world.credData
        IN  /\ world.call.op # "computeCredData" => world.call.threw = "none"
            /\ \A threshold \in Thresholds :
                  LET once == compressByThreshold(x, threshold)
                  IN  Idempotent(x, once, compressByThreshold(once.value, threshold))
            /\ \A inclusionIndices \in InclusionIndices :
                  LET once == compressDownToMatchingIndices(x, inclusionIndices)
                  IN  Idempotent(x, once,
                                 compressDownToMatchingIndices(once.value, inclusionIndices))

\* Cred data compressed by threshold, with a node and a flow dropped and a
\* node kept, has been compressed down to the indices of both nodes
C27_Witness ==
    /\ subject = "cred"
    /\ world.call.op = "compressDownToMatchingIndices"
    /\ world.call.arg = {0, 1}
    /\ world.call.threw = "none"
    /\ \E i, j \in 1..Len(world.call.on.nodeOverTime) :
          /\ world.call.on.nodeOverTime[i] = Null
          /\ world.call.on.nodeOverTime[j] # Null
          /\ world.call.on.nodeOverTime[j][1].seedFlow = Null
          /\ world.credData.nodeOverTime[j] # Null

-----------------------------------------------------------------------------
(* Properties of the indices of the payload-carrying graph.                *)

\* How often the address is in the list
TimesIn(list, address) == Cardinality({i \in 1..Len(list) : list[i] = address})

\* The index has the nodes' keys, holds every edge once under the endpoint
\* that end gives, and holds nothing else
IndexExact(g, index, end) ==
    /\ DOMAIN index = DOMAIN g.nodes
    /\ \A a \in DOMAIN g.edges :
          /\ g.edges[a][end] \in DOMAIN index
          /\ TimesIn(index[g.edges[a][end]], a) = 1
    /\ \A key \in DOMAIN index : \A i \in 1..Len(index[key]) :
          /\ index[key][i] \in DOMAIN g.edges
          /\ g.edges[index[key][i]][end] = key

\* C31: in the payload-carrying graph, after any calls of addNode,
\* removeNode, addEdge and removeEdge, the out-edge index and the in-edge
\* index have the keys of the node map, every edge from u to v is once in
\* the out-list of u and once in the in-list of v, and the indices hold
\* nothing else.
C31_PayloadIndicesExact ==
    subject = "payload" =>
        /\ IndexExact(payloadGraph, payloadGraph.outEdges, "src")
        /\ IndexExact(payloadGraph, payloadGraph.inEdges, "dst")

-----------------------------------------------------------------------------
(* Properties of the order of the distributions of one call.               *)

\* C32: the distributions applyDistributions returns are in ascending order
\* of time, each was computed from the accounts of the ledger that holds
\* the ledger's earlier distributions and those returned before it, and the
\* ledger has them applied in that order.
C32_DistributionsInOrder ==
    [][(subject = "grain" /\ world'.call.op = "applyDistributions") =>
          LET returned == world'.call.returned
          IN  /\ \A k \in 1..Len(returned) :
                    /\ k > 1 => returned[k - 1].credTimestamp < returned[k].credTimestamp
                    /\ returned[k].accounts =
                           computeCredAccounts(world.ledger \o SubSeq(returned, 1, k - 1))
              /\ world'.ledger = world.ledger \o returned]_vars

\* A call has applied two distributions to a ledger that had one
C32_Witness ==
    /\ subject = "grain"
    /\ world.call.op = "applyDistributions"
    /\ Len(world.call.returned) = 2
    /\ Len(world.ledger) = 3

-----------------------------------------------------------------------------
(* Properties of the calls that change nothing and of the reads.           *)

ReadStep ==
    /\ subject = "graph"
    /\ \/ /\ last'.op \in {"hasNode", "hasEdge", "edge", "equals", "copy", "toJSON"}
          /\ iter' = iter
       \/ /\ iter = NoIter
          /\ iter' # NoIter
       \/ /\ iter # NoIter
          /\ iter' # iter
          /\ iter' = iteratorNext(G, iter)

\* C34: hasNode, hasEdge, edge, nodes, edges, neighbors, equals, copy and
\* toJSON and the advance of an iterator leave the node set, the edge map,
\* both adjacency indices and the modification counter as they were, so the
\* check of an open iterator ends after them as it did before.
C34_ReadsChangeNothing ==
    [][ReadStep =>
          /\ UNCHANGED graphVars
          /\ (iter # NoIter /\ iter' # NoIter) =>
                checkForComodification(G', iter'.since) = checkForComodification(G, iter.since)]_vars

\* copy has returned a graph of two nodes and an edge while an iterator that
\* has yielded is open and no mutator was called since it was made
C34_Witness ==
    /\ subject = "graph"
    /\ last.op = "copy"
    /\ last.threw = "none"
    /\ Len(last.value.nodes) = 1
    /\ Len(last.value.edges) = 1
    /\ last.value.modificationCount = 2
    /\ iter # NoIter
    /\ iter.out.type = "yield"
    /\ ~iter.mutated

-----------------------------------------------------------------------------
(* Properties of an iterator that has failed.                              *)

\* The last advance of the iterator failed with the concurrent-modification
\* error
Failed ==
    /\ iter # NoIter
    /\ iter.out = [type |-> "throw", error |-> "Concurrent modification detected"]

\* C35: an iterator of nodes(), edges() or neighbors() that has failed with
\* the concurrent-modification error is finished: whatever is called
\* afterwards it stays finished, and every later advance returns without an
\* element and without an error.
C35_FailedIteratorYieldsNoMore ==
    /\ [](Failed => iter.done)
    /\ [][(iter # NoIter /\ iter.done) =>
             /\ iter'.done
             /\ iter'.out.type # "yield"
             /\ IteratorNextStep => iter'.out = [type |-> "return"]]_vars

\* An iterator of nodes() that was open when a mutator returned has failed
\* and has been advanced again, while the graph has a node to yield
C35_Witness ==
    /\ iter # NoIter
    /\ iter.kind = "nodes"
    /\ iter.mutated
    /\ iter.done
    /\ iter.out = [type |-> "return"]
    /\ \E i \in 1..Len(nodes) : i > iter.pos /\ HasPrefix(nodes[i], iter.options.prefix)

-----------------------------------------------------------------------------
(* Properties of the modification counter at its maximum.                  *)

\* How the mutator called with the argument ends on a graph
MutatorOutcome(op, arg, g) ==
    IF op = "addNode" THEN addNode(g, arg).threw
    ELSE IF op = "removeNode" THEN removeNode(g, arg).threw
    ELSE IF op = "addEdge" THEN addEdge(g, arg).threw
    ELSE removeEdge(g, arg).threw

\* C36 as it is stated: the modification counter is never above
\* MAX_SAFE_INTEGER, and every mutator called with the counter at
\* MAX_SAFE_INTEGER fails with 'cannot be modified more than' and leaves the
\* counter as it is.
C36_EveryCallAtMaximumFailsOnCounter ==
    /\ [](modificationCount <= MAX_SAFE_INTEGER)
    /\ [][(MutatorStep /\ modificationCount = MAX_SAFE_INTEGER) =>
             /\ last'.threw = "cannot be modified more"
             /\ modificationCount' = modificationCount]_vars

\* C36, amended: the modification counter is never above MAX_SAFE_INTEGER;
\* every mutator called with the counter at MAX_SAFE_INTEGER fails and
\* leaves the counter as it is, with 'cannot be modified more than' when the
\* call would return on the graph below the maximum and with the error it
\* would fail with there otherwise.
C36_CounterNeverAboveMaximum ==
    /\ [](modificationCount <= MAX_SAFE_INTEGER)
    /\ [][(MutatorStep /\ modificationCount = MAX_SAFE_INTEGER) =>
             LET below == MutatorOutcome(last'.op, last'.arg,
                                         [G EXCEPT !.modificationCount = 0])
             IN  /\ last'.threw # "none"
                 /\ modificationCount' = modificationCount
                 /\ last'.threw = IF below = "none" THEN "cannot be modified more"
                                  ELSE below]_vars

\* A mutator has failed on the counter at its maximum
C36_Witness ==
    /\ subject = "graph"
    /\ modificationCount = MAX_SAFE_INTEGER
    /\ last.op \in {"addNode", "removeNode", "addEdge", "removeEdge"}
    /\ last.threw = "cannot be modified more"

-----------------------------------------------------------------------------
(* Properties of Graph.merge under reordered and repeated inputs.          *)

\* The graph objects at the positions, in the opposite order
Reversed(inputs) == [k \in 1..Len(inputs) |-> world.graphs[inputs[Len(inputs) + 1 - k]]]

\* C37: Graph.merge does not depend on the order or multiplicity of its
\* inputs: merge([g1, g2]) fails iff merge([g2, g1]) fails and otherwise the
\* two results are equal (Graph.equals); merge([g, g]) and merge([g]) equal
\* g; merge([]) is the empty graph.
C37_MergeOrderAndMultiplicity ==
    [][\A inputs \in MergeInputs :
          MergeStep(inputs) =>
              LET other == merge(world.heap, Reversed(inputs))
                  result == Load(world'.heap, world'.graphs[3])
              IN  /\ (world'.call.threw # "none") <=> (other.threw # "none")
                  /\ world'.call.threw = "none" =>
                        /\ equals(result, Load(other.heap, other.obj))
                        /\ equals(Load(other.heap, other.obj), result)
                  /\ (\A k \in 1..Len(inputs) : inputs[k] = inputs[1]) =>
                        /\ world'.call.threw = "none"
                        /\ equals(result, IF inputs = <<>> THEN EmptyGraph
                                          ELSE GraphAt(inputs[1]))]_vars

\* Graph.merge has returned the graph of two graphs that differ and hold an
\* edge each, given second graph first
C37_Witness ==
    /\ subject = "merge"
    /\ world.call = [op |-> "merge", inputs |-> <<2, 1>>, threw |-> "none"]
    /\ Len(GraphAt(1).edges) = 1
    /\ Len(GraphAt(2).edges) = 1
    /\ ~equals(GraphAt(1), GraphAt(2))
    /\ Len(GraphAt(3).edges) = 2

-----------------------------------------------------------------------------
(* Properties of the graphs that Graph.fromJSON returns.                   *)

\* Whether an edge entry of the data has a srcIndex or a dstIndex that is
\* the index of no node of the data
IndexOutside(data) ==
    \E i \in 1..Len(data.edges) :
        \/ data.edges[i].srcIndex \notin 0..(Len(data.nodes) - 1)
        \/ data.edges[i].dstIndex \notin 0..(Len(data.nodes) - 1)

\* Whether two edge entries of the data have the same address and another
\* node as src or as dst
EntriesConflict(data) ==
    \E i, j \in 1..Len(data.edges) :
        /\ data.edges[i].address = data.edges[j].address
        /\ \/ At(data.nodes, data.edges[i].srcIndex) # At(data.nodes, data.edges[j].srcIndex)
           \/ At(data.nodes, data.edges[i].dstIndex) # At(data.nodes, data.edges[j].dstIndex)

\* C38: Graph.fromJSON never produces a graph with a dangling or conflicting
\* edge: it fails when an edge's srcIndex or dstIndex is outside the node
\* list, or when two edge entries share an address with different
\* endpoints, and every graph it returns satisfies checkInvariants(), holds
\* the src and the dst of each of its edges, and holds for each entry of
\* the data the edge the entry describes.
C38_FromJSONGraphIsSound ==
    last.op = "fromJSON" =>
        LET data == last.arg.data
        IN  /\ (IndexOutside(data) \/ EntriesConflict(data)) => last.threw # "none"
            /\ last.threw = "none" =>
                  /\ checkInvariants(last.value)
                  /\ \A e \in EdgesOf(last.value) :
                        hasNode(last.value, e.src) /\ hasNode(last.value, e.dst)
                  /\ \A i \in 1..Len(data.edges) :
                        [address |-> EdgeFromParts(data.edges[i].address),
                         src |-> NodeFromParts(At(data.nodes, data.edges[i].srcIndex)),
                         dst |-> NodeFromParts(At(data.nodes, data.edges[i].dstIndex))]
                            \in EdgesOf(last.value)

\* fromJSON has refused data under the envelope of the graph format whose
\* last entry has the address of the first with another dst, every index
\* being that of a node
C38_Witness ==
    /\ last.op = "fromJSON"
    /\ last.arg.compat = COMPAT_INFO
    /\ Len(last.arg.data.edges) = 2
    /\ ~IndexOutside(last.arg.data)
    /\ last.arg.data.edges[1].address = last.arg.data.edges[2].address
    /\ last.arg.data.edges[1].srcIndex = last.arg.data.edges[2].srcIndex
    /\ last.arg.data.edges[1].dstIndex # last.arg.data.edges[2].dstIndex
    /\ last.threw = "conflict"

====
